---- MODULE Spec2Model ----
(***************************************************************************)
(* Lead tracker: the import pipeline (handleFileImport, csvToRows,        *)
(* normalizeImportedLead, parseScorecardToLeads), the Firestore collection *)
(* of one account, the live subscription (onSnapshot mapping) and the      *)
(* aggregation memos (stats, weekly, weeklyRatios) of App.tsx.             *)
(*                                                                         *)
(* Text is a TLA+ string; its characters are SubSeq(s, i, i).  A          *)
(* JavaScript value is a record [t, v]: t is the typeof tag and v the      *)
(* text of the value (for a number, its decimal literal).  A number that   *)
(* the code computes with is a record [nan, c]: c counts hundredths, so    *)
(* that "$1.50" is 150; the texts the model feeds in have at most two      *)
(* fractional digits and no exponent, hex or Infinity literal.             *)
(***************************************************************************)
EXTENDS Integers, Sequences, FiniteSets, TLC

(***************************************************************************)
(* Characters and strings                                                  *)
(***************************************************************************)
Char(s, i) == SubSeq(s, i, i)

DigitChars == "0123456789"
UpperChars == "ABCDEFGHIJKLMNOPQRSTUVWXYZ"
LowerChars == "abcdefghijklmnopqrstuvwxyz"

IndexIn(alphabet, c) ==
    IF \E k \in 1..Len(alphabet) : Char(alphabet, k) = c
    THEN CHOOSE k \in 1..Len(alphabet) : Char(alphabet, k) = c
    ELSE 0

CharsOf(alphabet) == {Char(alphabet, k) : k \in 1..Len(alphabet)}
DigitSet == CharsOf(DigitChars)
DigitTable == [c \in DigitSet |-> IndexIn(DigitChars, c) - 1]
LowerTable == [c \in CharsOf(UpperChars) |-> Char(LowerChars, IndexIn(UpperChars, c))]
UpperTable == [c \in CharsOf(LowerChars) |-> Char(UpperChars, IndexIn(LowerChars, c))]

IsDigit(c) == c \in DigitSet
DigitVal(c) == DigitTable[c]

\* \s of a JavaScript regular expression and of String.prototype.trim,
\* restricted to the white space the model's texts contain
\* (U+FEFF, the byte-order mark, is white space too; BOM stands for it)
BOM == "~"
IsSpace(c) == c \in {" ", "\t", "\n", "\r", BOM}

LowerChar(c) == IF c \in DOMAIN LowerTable THEN LowerTable[c] ELSE c
UpperChar(c) == IF c \in DOMAIN UpperTable THEN UpperTable[c] ELSE c

RECURSIVE LowerFrom(_, _)
LowerFrom(s, i) ==
    IF i > Len(s) THEN "" ELSE LowerChar(Char(s, i)) \o LowerFrom(s, i + 1)

\* String.prototype.toLowerCase
toLowerCase(s) == LowerFrom(s, 1)

\* String.prototype.includes, for a non-empty needle
includes(s, needle) ==
    \E i \in 1..(Len(s) - Len(needle) + 1) : SubSeq(s, i, i + Len(needle) - 1) = needle

RECURSIVE TrimStartFrom(_, _)
TrimStartFrom(s, i) ==
    IF i > Len(s) THEN ""
    ELSE IF IsSpace(Char(s, i)) THEN TrimStartFrom(s, i + 1)
    ELSE SubSeq(s, i, Len(s))

RECURSIVE TrimEndTo(_, _)
TrimEndTo(s, j) ==
    IF j < 1 THEN ""
    ELSE IF IsSpace(Char(s, j)) THEN TrimEndTo(s, j - 1)
    ELSE SubSeq(s, 1, j)

trimEnd(s) == TrimEndTo(s, Len(s))
\* String.prototype.trim
trim(s) == trimEnd(TrimStartFrom(s, 1))

\* the end of the maximal run of digits that starts at position i
RECURSIVE DigitRunEnd(_, _)
DigitRunEnd(s, i) ==
    IF i < Len(s) /\ IsDigit(Char(s, i + 1)) THEN DigitRunEnd(s, i + 1) ELSE i

HasDigit(s) == \E i \in 1..Len(s) : IsDigit(Char(s, i))

\* s.match(/\d+/)[0]: the first maximal run of digits ("" stands for no match)
FirstDigitRun(s) ==
    IF ~HasDigit(s) THEN ""
    ELSE LET i == CHOOSE k \in 1..Len(s) :
                      IsDigit(Char(s, k)) /\ \A m \in 1..(k - 1) : ~IsDigit(Char(s, m))
         IN  SubSeq(s, i, DigitRunEnd(s, i))

(***************************************************************************)
(* JavaScript values and numbers                                           *)
(***************************************************************************)
Str(s) == [t |-> "string", v |-> s]
NumLit(s) == [t |-> "number", v |-> s]
Undef == [t |-> "undefined", v |-> ""]

IsStr(x) == x.t = "string"

NaN == [nan |-> TRUE, c |-> 0]
Real(c) == [nan |-> FALSE, c |-> c]
Hundred == 10 * 10

RECURSIVE DigitsValue(_, _)
\* the value of the digit string s read up to position j
DigitsValue(s, j) ==
    IF j < 1 THEN 0 ELSE 10 * DigitsValue(s, j - 1) + DigitVal(Char(s, j))

AllDigits(s) == \A i \in 1..Len(s) : IsDigit(Char(s, i))

\* the hundredths denoted by the fraction digits f
FractionValue(f) ==
    IF Len(f) = 0 THEN 0
    ELSE IF Len(f) = 1 THEN 10 * DigitVal(Char(f, 1))
    ELSE 10 * DigitVal(Char(f, 1)) + DigitVal(Char(f, 2))

\* an unsigned decimal literal: digits, digits '.', digits '.' digits, '.' digits
UnsignedDecimal(u) ==
    LET dots == {i \in 1..Len(u) : Char(u, i) = "."}
    IN  IF dots = {}
        THEN IF Len(u) > 0 /\ AllDigits(u) THEN Real(Hundred * DigitsValue(u, Len(u))) ELSE NaN
        ELSE IF Cardinality(dots) > 1 THEN NaN
        ELSE LET d == CHOOSE i \in dots : TRUE
                 ip == SubSeq(u, 1, d - 1)
                 fp == SubSeq(u, d + 1, Len(u))
             IN  IF Len(ip) + Len(fp) > 0 /\ AllDigits(ip) /\ AllDigits(fp)
                 THEN Real(Hundred * DigitsValue(ip, Len(ip)) + FractionValue(fp))
                 ELSE NaN

\* StringToNumber: white space is trimmed, the empty text is 0, a signed
\* decimal literal is its value and any other text is NaN
StringToNumber(s) ==
    LET w == trim(s)
    IN  IF w = "" THEN Real(0)
        ELSE IF Char(w, 1) = "-"
             THEN LET r == UnsignedDecimal(SubSeq(w, 2, Len(w)))
                  IN  IF r.nan THEN NaN ELSE Real(0 - r.c)
        ELSE IF Char(w, 1) = "+" THEN UnsignedDecimal(SubSeq(w, 2, Len(w)))
        ELSE UnsignedDecimal(w)

\* Number(x) for a value of any type
Number(x) ==
    IF x.t = "undefined" THEN NaN ELSE StringToNumber(x.v)

\* truthiness: the empty string, 0, NaN and undefined are falsy
Truthy(x) ==
    CASE x.t = "string" -> x.v # ""
      [] x.t = "number" -> LET n == StringToNumber(x.v) IN ~n.nan /\ n.c # 0
      [] OTHER -> FALSE

\* a || b
Or(a, b) == IF Truthy(a) THEN a ELSE b

(***************************************************************************)
(* Module-level helpers of App.tsx                                         *)
(***************************************************************************)
defaultReplyCategory == "7:00-3:30"
allowed == {"7:00-3:30", "3:00-6:00", "After 6", "Weekend"}

\* parseMoney throws a TypeError when value has no replace method
parseMoneyThrows(value) == ~IsStr(value)

\* value.replace(/[^\d]/g, '')
RECURSIVE StripNonDigits(_, _)
StripNonDigits(s, i) ==
    IF i > Len(s) THEN ""
    ELSE (IF IsDigit(Char(s, i)) THEN Char(s, i) ELSE "") \o StripNonDigits(s, i + 1)

RECURSIVE StripNonMoney(_, _)
\* value.replace(/[^\d.-]/g, '')
StripNonMoney(s, i) ==
    IF i > Len(s) THEN ""
    ELSE (IF IsDigit(Char(s, i)) \/ Char(s, i) \in {".", "-"} THEN Char(s, i) ELSE "")
         \o StripNonMoney(s, i + 1)

parseMoney(value) ==
    LET num == StringToNumber(StripNonMoney(value.v, 1))
    IN  IF ~num.nan THEN num.c ELSE 0

Null == [null |-> TRUE, c |-> 0]
Minutes(c) == [null |-> FALSE, c |-> c]

getReplyMinutes(lead) ==
    LET fromNew == Number(lead.replyTimeMinutes)
    IN  IF ~fromNew.nan /\ fromNew.c >= 0 THEN Minutes(fromNew.c)
        ELSE IF Truthy(lead.replyTime) /\ HasDigit(lead.replyTime.v)
             THEN Minutes(Hundred * DigitsValue(FirstDigitRun(lead.replyTime.v),
                                                Len(FirstDigitRun(lead.replyTime.v))))
        ELSE Null

RECURSIVE CollapseFrom(_, _)
\* s.replace(/[\s_]+/g, ' ') from position i on
CollapseFrom(s, i) ==
    IF i > Len(s) THEN ""
    ELSE IF IsSpace(Char(s, i)) \/ Char(s, i) = "_"
         THEN IF i > 1 /\ (IsSpace(Char(s, i - 1)) \/ Char(s, i - 1) = "_")
              THEN CollapseFrom(s, i + 1)
              ELSE " " \o CollapseFrom(s, i + 1)
    ELSE Char(s, i) \o CollapseFrom(s, i + 1)

normalizeHeader(value) ==
    LET noBom == IF Len(value) > 0 /\ Char(value, 1) = BOM
                 THEN SubSeq(value, 2, Len(value)) ELSE value
    IN  CollapseFrom(toLowerCase(trim(noBom)), 1)

(***************************************************************************)
(* Row objects: a Record<string, string> is the sequence of its entries    *)
(* <<key, value>> in insertion order; a later entry of a key replaces an   *)
(* earlier one.                                                            *)
(***************************************************************************)
Lookup(row, key) ==
    IF \E i \in 1..Len(row) : row[i][1] = key
    THEN row[CHOOSE i \in 1..Len(row) :
                 row[i][1] = key /\ \A j \in (i + 1)..Len(row) : row[j][1] # key][2]
    ELSE Undef

\* the keys normalizeImportedLead passes to pick
pickKeys ==
    {"date", "customer", "name", "lead source", "source", "job type", "lead cost", "cost",
     "job won", "sold", "comments", "reply time category", "reply time minutes", "booked",
     "cancelled", "canceled", "sold amount", "revenue"}

\* normalizeHeader(key) of each of them
normalizedKey == [key \in pickKeys |-> normalizeHeader(key)]

RECURSIVE pick(_, _)
\* normalizeImportedLead.pick(...keys)
pick(row, keys) ==
    IF keys = <<>> THEN Str("")
    ELSE LET value == Lookup(row, normalizedKey[Head(keys)])
         IN  IF value # Undef /\ value # Str("") THEN value ELSE pick(row, Tail(keys))

\* yesNo throws a TypeError when value is neither nullish nor a string
yesNoThrows(value) == value.t = "number"
\* the mapping that keeps a text other than "yes" as it came
yesOrAsGiven(value) ==
    IF IsStr(value) /\ toLowerCase(value.v) = "yes" THEN Str("Yes") ELSE value

yesNo(value) == IF IsStr(value) /\ toLowerCase(value.v) = "yes" THEN Str("Yes") ELSE Str("No")

normalizeImportedLeadThrows(row) ==
    \/ yesNoThrows(Or(pick(row, <<"job won", "sold">>), Str("No")))
    \/ yesNoThrows(Or(pick(row, <<"booked">>), Str("No")))
    \/ yesNoThrows(Or(pick(row, <<"sold", "job won">>), Str("No")))
    \/ yesNoThrows(Or(pick(row, <<"cancelled", "canceled">>), Str("No")))

normalizeImportedLead(row) ==
    LET rawCategory == pick(row, <<"reply time category">>)
        replyTimeCategory ==
            IF IsStr(rawCategory) /\ rawCategory.v \in allowed
            THEN rawCategory ELSE Str(defaultReplyCategory)
    IN  [date |-> pick(row, <<"date">>),
         customer |-> pick(row, <<"customer", "name">>),
         leadSource |-> pick(row, <<"lead source", "source">>),
         jobType |-> pick(row, <<"job type">>),
         leadCost |-> Or(pick(row, <<"lead cost", "cost">>), Str("$0")),
         jobWon |-> yesNo(Or(pick(row, <<"job won", "sold">>), Str("No"))),
         comments |-> pick(row, <<"comments">>),
         replyTimeCategory |-> replyTimeCategory,
         replyTimeMinutes |-> pick(row, <<"reply time minutes">>),
         booked |-> yesNo(Or(pick(row, <<"booked">>), Str("No"))),
         sold |-> yesNo(Or(pick(row, <<"sold", "job won">>), Str("No"))),
         cancelled |-> yesNo(Or(pick(row, <<"cancelled", "canceled">>), Str("No"))),
         soldAmount |-> Or(pick(row, <<"sold amount">>), Str("$0")),
         revenue |-> Or(pick(row, <<"revenue">>), Str("$0")),
         replyTime |-> Undef]

(***************************************************************************)
(* The live subscription: one stored document to one Lead                  *)
(***************************************************************************)
YesOrNo(x) == IF x = Str("Yes") THEN Str("Yes") ELSE Str("No")

\* the mapping with the stored replyTime text left unread
replyTimeMinutesOnly(data) == Or(data.replyTimeMinutes, Str(""))

\* const replyTimeMinutes: the stored minutes, else the first run of digits
\* of the stored replyTime text, else ''
snapshotReplyTimeMinutes(data) ==
    Or(Or(data.replyTimeMinutes,
          IF IsStr(data.replyTime) /\ HasDigit(data.replyTime.v)
          THEN Str(FirstDigitRun(data.replyTime.v)) ELSE Undef),
       Str(""))

\* const replyTimeCategory: the stored category, else 'Weekend' when the
\* stored replyTime text mentions it, else the default
snapshotReplyTimeCategory(data) ==
    Or(data.replyTimeCategory,
       IF IsStr(data.replyTime) /\ includes(toLowerCase(data.replyTime.v), "weekend")
       THEN Str("Weekend") ELSE Str(defaultReplyCategory))

snapshotLead(id, data) ==
    LET replyTimeCategory == snapshotReplyTimeCategory(data)
        replyTimeMinutes == snapshotReplyTimeMinutes(data)
        sold == Or(data.sold, YesOrNo(data.jobWon))
        booked == Or(data.booked, YesOrNo(sold))
    IN  [id |-> id,
         date |-> Or(data.date, Str("")),
         customer |-> Or(data.customer, Str("")),
         leadSource |-> Or(data.leadSource, Str("")),
         jobType |-> Or(data.jobType, Str("")),
         leadCost |-> Or(data.leadCost, Str("")),
         jobWon |-> YesOrNo(data.jobWon),
         comments |-> Or(data.comments, Str("")),
         replyTimeCategory |-> replyTimeCategory,
         replyTimeMinutes |-> replyTimeMinutes,
         booked |-> YesOrNo(booked),
         sold |-> YesOrNo(sold),
         cancelled |-> YesOrNo(data.cancelled),
         soldAmount |-> Or(data.soldAmount, Str("")),
         revenue |-> Or(data.revenue, Str("")),
         replyTime |-> data.replyTime]

(***************************************************************************)
(* Tabular Reader: csvToMatrix and csvToRows                               *)
(***************************************************************************)
RECURSIVE SplitOn(_, _, _, _)
\* s.split(sep) for a one-character separator: the pieces of s from
\* position i on, the current piece having started at position from
SplitOn(s, sep, from, i) ==
    IF i > Len(s) THEN <<SubSeq(s, from, Len(s))>>
    ELSE IF Char(s, i) = sep
         THEN <<SubSeq(s, from, i - 1)>> \o SplitOn(s, sep, i + 1, i + 1)
    ELSE SplitOn(s, sep, from, i + 1)

\* text.split(/\r?\n/): a carriage return right before the line feed
\* belongs to the separator
SplitLines(text) ==
    LET raw == SplitOn(text, "\n", 1, 1)
    IN  [k \in 1..Len(raw) |->
            IF k < Len(raw) /\ Len(raw[k]) > 0 /\ Char(raw[k], Len(raw[k])) = "\r"
            THEN SubSeq(raw[k], 1, Len(raw[k]) - 1) ELSE raw[k]]

RECURSIVE parseLineFromUntrimmed(_, _, _, _)
\* the comma-mode loop pushing current as it stands
parseLineFromUntrimmed(line, i, current, inQuotes) ==
    IF i > Len(line) THEN <<current>>
    ELSE LET ch == Char(line, i)
         IN  IF ch = "\""
             THEN IF inQuotes /\ i < Len(line) /\ Char(line, i + 1) = "\""
                  THEN parseLineFromUntrimmed(line, i + 2, current \o "\"", inQuotes)
                  ELSE parseLineFromUntrimmed(line, i + 1, current, ~inQuotes)
             ELSE IF ch = "," /\ ~inQuotes
                  THEN <<current>> \o parseLineFromUntrimmed(line, i + 1, "", inQuotes)
             ELSE parseLineFromUntrimmed(line, i + 1, current \o ch, inQuotes)

RECURSIVE parseLineFrom(_, _, _, _)
\* the comma-mode loop of parseLine from position i on, with the loop's
\* variables current and inQuotes
parseLineFrom(line, i, current, inQuotes) ==
    IF i > Len(line) THEN <<trim(current)>>
    ELSE LET ch == Char(line, i)
         IN  IF ch = "\""
             THEN IF inQuotes /\ i < Len(line) /\ Char(line, i + 1) = "\""
                  THEN parseLineFrom(line, i + 2, current \o "\"", inQuotes)
                  ELSE parseLineFrom(line, i + 1, current, ~inQuotes)
             ELSE IF ch = "," /\ ~inQuotes
                  THEN <<trim(current)>> \o parseLineFrom(line, i + 1, "", inQuotes)
             ELSE parseLineFrom(line, i + 1, current \o ch, inQuotes)

\* the line split at every delimiter, quotes not looked at
parseLineSplitOnly(line, delimiter) ==
    LET parts == SplitOn(line, delimiter, 1, 1) IN [k \in 1..Len(parts) |-> trim(parts[k])]

parseLine(line, delimiter) ==
    IF delimiter = "\t"
    THEN LET parts == SplitOn(line, "\t", 1, 1) IN [k \in 1..Len(parts) |-> trim(parts[k])]
    ELSE parseLineFrom(line, 1, "", FALSE)

csvToMatrix(text) ==
    LET split == SplitLines(text)
        lines == SelectSeq([k \in 1..Len(split) |-> trimEnd(split[k])], LAMBDA l : l # "")
    IN  IF Len(lines) = 0 THEN <<>>
        ELSE LET delimiter == IF includes(lines[1], "\t") THEN "\t" ELSE ","
             IN  [k \in 1..Len(lines) |-> parseLine(lines[k], delimiter)]

csvToRows(text) ==
    LET matrix == csvToMatrix(text)
    IN  IF Len(matrix) < 2 THEN <<>>
        ELSE LET headers == [k \in 1..Len(matrix[1]) |-> normalizeHeader(matrix[1][k])]
             IN  [r \in 1..(Len(matrix) - 1) |->
                     [idx \in 1..Len(headers) |->
                         <<headers[idx],
                           Str(IF idx <= Len(matrix[r + 1]) THEN trim(matrix[r + 1][idx]) ELSE "")>>]]

(***************************************************************************)
(* Scorecard Transformer: parseScorecardToLeads                            *)
(***************************************************************************)
IsLetter(c) == c \in DOMAIN LowerTable \/ c \in DOMAIN UpperTable

RECURSIVE SkipSpaces(_, _)
SkipSpaces(s, i) == IF i <= Len(s) /\ IsSpace(Char(s, i)) THEN SkipSpaces(s, i + 1) ELSE i

\* /[A-Z]{3}:\s*\d+/i matches s at position i
WeekAt(s, i) ==
    /\ i + 3 <= Len(s)
    /\ IsLetter(Char(s, i)) /\ IsLetter(Char(s, i + 1)) /\ IsLetter(Char(s, i + 2))
    /\ Char(s, i + 3) = ":"
    /\ SkipSpaces(s, i + 4) <= Len(s)
    /\ IsDigit(Char(s, SkipSpaces(s, i + 4)))

\* /[A-Z]{3}:\s*\d+/i.test(s)
WeekTest(s) == \E i \in 1..Len(s) : WeekAt(s, i)

\* s.match(/([A-Z]{3}):\s*(\d{1,2})/i): the two groups of the leftmost match
WeekMatch(s) ==
    LET i == CHOOSE k \in 1..Len(s) : WeekAt(s, k) /\ \A m \in 1..(k - 1) : ~WeekAt(s, m)
        j == SkipSpaces(s, i + 4)
    IN  [mon |-> SubSeq(s, i, i + 2),
         day |-> IF j < Len(s) /\ IsDigit(Char(s, j + 1)) THEN SubSeq(s, j, j + 1)
                 ELSE SubSeq(s, j, j)]

RECURSIVE UpperFrom(_, _)
UpperFrom(s, i) ==
    IF i > Len(s) THEN ""
    ELSE UpperChar(Char(s, i)) \o UpperFrom(s, i + 1)

toUpperCase(s) == UpperFrom(s, 1)

monthNames ==
    <<"JAN", "FEB", "MAR", "APR", "MAY", "JUN", "JUL", "AUG", "SEP", "OCT", "NOV", "DEC">>

\* monthMap[name], 0 standing for undefined
monthMap(name) ==
    IF \E k \in 1..12 : monthNames[k] = name
    THEN CHOOSE k \in 1..12 : monthNames[k] = name ELSE 0

RECURSIVE NatToString(_)
\* String(n) for a natural number n
NatToString(n) == IF n < 10 THEN Char(DigitChars, n + 1)
               ELSE NatToString(n \div 10) \o Char(DigitChars, (n % 10) + 1)

\* String(n).padStart(2, '0')
Pad2(n) == IF n < 10 THEN "0" \o NatToString(n) ELSE NatToString(n)

\* new Date().getFullYear()
currentYear == 2026

RECURSIVE Flatten(_)
Flatten(seqs) == IF seqs = <<>> THEN <<>> ELSE Head(seqs) \o Flatten(Tail(seqs))

Cell(row, idx) == IF idx <= Len(row) THEN row[idx] ELSE ""

\* the Leads of one channel row and one week column
scorecardCell(source, row, week) ==
    LET raw == Cell(row, week.idx)
        count == IF HasDigit(raw)
                 THEN DigitsValue(FirstDigitRun(raw), Len(FirstDigitRun(raw))) ELSE 0
        weekMatch == WeekMatch(week.value)
        mon == monthMap(toUpperCase(weekMatch.mon))
        day == DigitsValue(weekMatch.day, Len(weekMatch.day))
        date == NatToString(currentYear) \o "-" \o Pad2(IF mon = 0 THEN 1 ELSE mon)
                    \o "-" \o Pad2(day)
    IN  IF count < 1 THEN <<>>
        ELSE [i \in 1..count |->
                [date |-> Str(date),
                 customer |-> Str("Imported " \o source \o " Lead " \o NatToString(i)),
                 leadSource |-> Str(source),
                 jobType |-> Str("Imported"),
                 leadCost |-> Str("$0"),
                 jobWon |-> Str("No"),
                 comments |-> Str("Imported from marketing scorecard (" \o week.value \o ")"),
                 replyTimeCategory |-> Str(defaultReplyCategory),
                 replyTimeMinutes |-> Str(""),
                 booked |-> Str("No"),
                 sold |-> Str("No"),
                 cancelled |-> Str("No"),
                 soldAmount |-> Str("$0"),
                 revenue |-> Str("$0"),
                 replyTime |-> Undef]]

\* leadsOut with the section end looked for in every row of the matrix
leadsOutAnyEnd(matrix) ==
    LET isHeader(row) == \E k \in 1..Len(row) : WeekTest(row[k])
        isStart(row) == includes(toLowerCase(row[1]), "channel performance")
        isEnd(row) == includes(toLowerCase(row[1]), "brand & reputation")
    IN  IF Len(matrix) = 0 THEN <<>>
        ELSE IF ~(\E r \in 1..Len(matrix) : isHeader(matrix[r]))
                \/ ~(\E r \in 1..Len(matrix) : isStart(matrix[r])) THEN <<>>
        ELSE LET headerRow == matrix[CHOOSE r \in 1..Len(matrix) :
                     isHeader(matrix[r]) /\ \A q \in 1..(r - 1) : ~isHeader(matrix[q])]
                 channelStart == CHOOSE r \in 1..Len(matrix) :
                     isStart(matrix[r]) /\ \A q \in 1..(r - 1) : ~isStart(matrix[q])
                 weekIdx == SelectSeq([k \in 1..Len(headerRow) |-> k],
                                      LAMBDA k : WeekTest(trim(headerRow[k])))
                 weekColumns == [w \in 1..Len(weekIdx) |->
                                    [idx |-> weekIdx[w], value |-> trim(headerRow[weekIdx[w]])]]
                 ends == {r \in 1..Len(matrix) : isEnd(matrix[r])}
                 last == IF ends = {}
                         THEN IF channelStart + 7 < Len(matrix)
                              THEN channelStart + 7 ELSE Len(matrix)
                         ELSE (CHOOSE r \in ends : \A q \in ends : r <= q) - 1
                 channelRows == SubSeq(matrix, channelStart + 1, last)
                 rowLeads(row) ==
                     LET source == trim(row[1])
                     IN  IF source = "" \/ includes(toLowerCase(source), "goal")
                            \/ includes(toLowerCase(source), "actual") THEN <<>>
                         ELSE Flatten([w \in 1..Len(weekColumns) |->
                                          scorecardCell(source, row, weekColumns[w])])
             IN  Flatten([r \in 1..Len(channelRows) |-> rowLeads(channelRows[r])])

\* leadsOut, what the function returns for the matrix it has read
leadsOut(matrix) ==
    LET isHeader(row) == \E k \in 1..Len(row) : WeekTest(row[k])
        isStart(row) == includes(toLowerCase(row[1]), "channel performance")
        isEnd(row) == includes(toLowerCase(row[1]), "brand & reputation")
    IN  IF Len(matrix) = 0 THEN <<>>
        ELSE IF ~(\E r \in 1..Len(matrix) : isHeader(matrix[r]))
                \/ ~(\E r \in 1..Len(matrix) : isStart(matrix[r])) THEN <<>>
        ELSE LET headerRow == matrix[CHOOSE r \in 1..Len(matrix) :
                     isHeader(matrix[r]) /\ \A q \in 1..(r - 1) : ~isHeader(matrix[q])]
                 channelStart == CHOOSE r \in 1..Len(matrix) :
                     isStart(matrix[r]) /\ \A q \in 1..(r - 1) : ~isStart(matrix[q])
                 weekIdx == SelectSeq([k \in 1..Len(headerRow) |-> k],
                                      LAMBDA k : WeekTest(trim(headerRow[k])))
                 weekColumns == [w \in 1..Len(weekIdx) |->
                                    [idx |-> weekIdx[w], value |-> trim(headerRow[weekIdx[w]])]]
                 ends == {r \in (channelStart + 1)..Len(matrix) : isEnd(matrix[r])}
                 last == IF ends = {}
                         THEN IF channelStart + 7 < Len(matrix)
                              THEN channelStart + 7 ELSE Len(matrix)
                         ELSE (CHOOSE r \in ends : \A q \in ends : r <= q) - 1
                 channelRows == SubSeq(matrix, channelStart + 1, last)
                 rowLeads(row) ==
                     LET source == trim(row[1])
                     IN  IF source = "" \/ includes(toLowerCase(source), "goal")
                            \/ includes(toLowerCase(source), "actual") THEN <<>>
                         ELSE Flatten([w \in 1..Len(weekColumns) |->
                                          scorecardCell(source, row, weekColumns[w])])
             IN  Flatten([r \in 1..Len(channelRows) |-> rowLeads(channelRows[r])])

\* the matrix is read once and then bound
parseScorecardToLeads(text) ==
    CHOOSE parsed \in {leadsOut(matrix) : matrix \in {csvToMatrix(text)}} : TRUE

(***************************************************************************)
(* Aggregation Engine: stats, monthWeeks, weekly, weeklyRatios.  An amount *)
(* is a whole number of hundredths.  A quotient num / den the code divides *)
(* out is kept as the pair [n |-> num, d |-> den].                         *)
(***************************************************************************)
Quot(n, d) == [n |-> n, d |-> d]
Zero == Quot(0, 1)

RECURSIVE Sum(_)
\* the sum of a sequence of numbers
Sum(seq) == IF seq = <<>> THEN 0 ELSE Head(seq) + Sum(Tail(seq))

\* the sum of op(x) over the elements x of a sequence
SumOver(seq, op(_)) == Sum([k \in 1..Len(seq) |-> op(seq[k])])

Count(seq, test(_)) == Len(SelectSeq(seq, test))

\* a string-typed money field on which parseMoney is called
moneyThrows(lead) == parseMoneyThrows(lead.leadCost)

replyValues(rows) ==
    SelectSeq([k \in 1..Len(rows) |-> getReplyMinutes(rows[k])], LAMBDA m : ~m.null)

average(values) ==
    IF Len(values) > 0 THEN Quot(SumOver(values, LAMBDA m : m.c), Len(values)) ELSE Zero

\* acc[category].sum += mins throws when acc has no such category
categoryThrows(lead) ==
    /\ ~getReplyMinutes(lead).null
    /\ Or(lead.replyTimeCategory, Str(defaultReplyCategory)).v \notin allowed

\* the share of won leads left as a fraction
winRateFraction(wonLeads, totalLeads) ==
    IF totalLeads > 0 THEN Quot(wonLeads, totalLeads) ELSE Zero

winRate(wonLeads, totalLeads) ==
    IF totalLeads > 0 THEN Quot(wonLeads * 100, totalLeads) ELSE Zero

stats(rows) ==
    LET threw == \/ \E k \in 1..Len(rows) : moneyThrows(rows[k])
                 \/ \E k \in 1..Len(rows) : categoryThrows(rows[k])
        totalLeads == Len(rows)
        wonLeads == Count(rows, LAMBDA l : l.jobWon = Str("Yes"))
        byCategory(c) ==
            replyValues(SelectSeq(rows, LAMBDA l :
                Or(l.replyTimeCategory, Str(defaultReplyCategory)).v = c))
    IN  IF threw
        THEN [threw |-> TRUE, totalLeads |-> 0, wonLeads |-> 0, totalCost |-> 0,
              winRate |-> Zero, avgReplyTime |-> Zero, replyCount |-> 0,
              avgReplyByCategory |-> [c \in allowed |-> [sum |-> 0, count |-> 0]]]
        ELSE [threw |-> FALSE,
              totalLeads |-> totalLeads,
              wonLeads |-> wonLeads,
              totalCost |-> SumOver(rows, LAMBDA l : parseMoney(l.leadCost)),
              winRate |-> winRate(wonLeads, totalLeads),
              avgReplyTime |-> average(replyValues(rows)),
              replyCount |-> Len(replyValues(rows)),
              avgReplyByCategory |->
                  [c \in allowed |->
                      [sum |-> SumOver(byCategory(c), LAMBDA m : m.c),
                       count |-> Len(byCategory(c))]]]

IsLeapYear(y) == (y % 4 = 0 /\ y % 100 # 0) \/ y % 400 = 0

\* new Date(year, month, 0).getDate() for a month 1..12
DaysInMonth(y, m) ==
    IF m = 2 THEN (IF IsLeapYear(y) THEN 28 + 1 ELSE 28)
    ELSE IF m \in {4, 6, 9, 11} THEN 30 ELSE 31

\* new Date(`${date}T00:00:00`): year-month-day of a text of the form
\* YYYY-MM-DD that names a day of the calendar; any other text is an invalid
\* date.  (A day past the end of its month, as in 2026-02-30, is read
\* differently by different engines; here it is no day of the calendar, and
\* the weekly view of this model is computed over no such text.)
parseDate(text) ==
    IF /\ Len(text) = 10
       /\ AllDigits(SubSeq(text, 1, 4)) /\ Char(text, 5) = "-"
       /\ AllDigits(SubSeq(text, 6, 7)) /\ Char(text, 8) = "-"
       /\ AllDigits(SubSeq(text, 9, 10))
       /\ DigitsValue(SubSeq(text, 6, 7), 2) \in 1..12
       /\ DigitsValue(SubSeq(text, 9, 10), 2) \in
              1..DaysInMonth(DigitsValue(SubSeq(text, 1, 4), 4), DigitsValue(SubSeq(text, 6, 7), 2))
    THEN [ok |-> TRUE, y |-> DigitsValue(SubSeq(text, 1, 4), 4),
          m |-> DigitsValue(SubSeq(text, 6, 7), 2), d |-> DigitsValue(SubSeq(text, 9, 10), 2)]
    ELSE [ok |-> FALSE, y |-> 0, m |-> 0, d |-> 0]

\* Number(parts[k]) of s.split('-'), as a whole number; 0 stands for every
\* value the code's !x test rejects (0, NaN, a missing part)
PartNumber(s, k) ==
    LET parts == SplitOn(s, "-", 1, 1)
    IN  IF k > Len(parts) THEN 0
        ELSE LET n == StringToNumber(parts[k])
             IN  IF n.nan THEN 0 ELSE n.c \div Hundred

weekLabel(startDay, endDay) == NatToString(startDay) \o "-" \o NatToString(endDay)

\* the four ranges of the fallback, whatever the month
monthWeeksFourWeeks(month) == <<"1-7", "8-14", "15-21", "22-28">>

monthWeeks(month) ==
    LET year == PartNumber(month, 1)
        mon == PartNumber(month, 2)
    IN  IF year = 0 \/ mon = 0 THEN <<"1-7", "8-14", "15-21", "22-28">>
        ELSE LET lastDay == DaysInMonth(year, mon)
             IN  [w \in 1..((lastDay + 6) \div 7) |->
                     weekLabel(7 * w - 6, IF 7 * w < lastDay THEN 7 * w ELSE lastDay)]

emptyGroup == [spend |-> 0, leads |-> 0, booked |-> 0, sold |-> 0, cancelled |-> 0,
               soldAmount |-> 0, revenue |-> 0]

groupKey(lead) == IF Truthy(lead.leadSource) THEN lead.leadSource.v ELSE "Unknown"

RECURSIVE KeysInOrder(_, _)
\* the keys of grouped in the order Object.entries lists them: the order in
\* which the reduce first met them
KeysInOrder(rows, seen) ==
    IF rows = <<>> THEN <<>>
    ELSE IF groupKey(Head(rows)) \in seen THEN KeysInOrder(Tail(rows), seen)
    ELSE <<groupKey(Head(rows))>> \o KeysInOrder(Tail(rows), seen \cup {groupKey(Head(rows))})

groupOf(rows, key) ==
    LET mine == SelectSeq(rows, LAMBDA l : groupKey(l) = key)
    IN  [spend |-> SumOver(mine, LAMBDA l : parseMoney(l.leadCost)),
         leads |-> Len(mine),
         booked |-> Count(mine, LAMBDA l : l.booked = Str("Yes")),
         sold |-> Count(mine, LAMBDA l : l.sold = Str("Yes")),
         cancelled |-> Count(mine, LAMBDA l : l.cancelled = Str("Yes")),
         soldAmount |-> SumOver(mine, LAMBDA l : parseMoney(l.soldAmount)),
         revenue |-> SumOver(mine, LAMBDA l : parseMoney(l.revenue))]

RECURSIVE InsertBySpend(_, _)
\* row put after every row of sorted that the comparator b.spend - a.spend
\* does not place behind it (Array.prototype.sort is stable)
InsertBySpend(sorted, row) ==
    IF sorted = <<>> THEN <<row>>
    ELSE IF Head(sorted).spend >= row.spend THEN <<Head(sorted)>> \o InsertBySpend(Tail(sorted), row)
    ELSE <<row>> \o sorted

\* the groups left in the order Object.entries lists them
entriesOrder(sorted, rest) == sorted \o rest

RECURSIVE SortBySpend(_, _)
SortBySpend(sorted, rest) ==
    IF rest = <<>> THEN sorted ELSE SortBySpend(InsertBySpend(sorted, Head(rest)), Tail(rest))

emptyTotals == [spend |-> 0, leads |-> 0, booked |-> 0, sold |-> 0, cancelled |-> 0,
                soldAmount |-> 0, revenue |-> 0, avgReplyMins |-> Zero]

\* the window without its first day
inWindowAfterStart(lead, year, month, startDay, endDay) ==
    LET d == parseDate(lead.date.v)
    IN  d.ok /\ d.y = year /\ d.m = month /\ d.d > startDay /\ d.d <= endDay

inWindow(lead, year, month, startDay, endDay) ==
    LET d == parseDate(lead.date.v)
    IN  d.ok /\ d.y = year /\ d.m = month /\ d.d >= startDay /\ d.d <= endDay

weekly(rows, month, week) ==
    LET year == PartNumber(month, 1)
        mon == PartNumber(month, 2)
        startDay == PartNumber(week, 1)
        endDay == PartNumber(week, 2)
        filtered == SelectSeq(rows, LAMBDA l : inWindow(l, year, mon, startDay, endDay))
        keys == KeysInOrder(filtered, {})
        groups == [k \in 1..Len(keys) |->
                     LET data == groupOf(filtered, keys[k])
                     IN  [source |-> keys[k], spend |-> data.spend, leads |-> data.leads,
                          booked |-> data.booked, sold |-> data.sold,
                          cancelled |-> data.cancelled, soldAmount |-> data.soldAmount,
                          revenue |-> data.revenue,
                          cpl |-> IF data.leads > 0 THEN Quot(data.spend, data.leads) ELSE Zero,
                          fiveXReturn |-> data.spend * 5]]
        sorted == SortBySpend(<<>>, groups)
    IN  IF year = 0 \/ mon = 0 \/ startDay = 0 \/ endDay = 0
        THEN [threw |-> FALSE, rows |-> <<>>, totals |-> emptyTotals]
        ELSE IF \E k \in 1..Len(filtered) :
                    \/ parseMoneyThrows(filtered[k].leadCost)
                    \/ parseMoneyThrows(filtered[k].soldAmount)
                    \/ parseMoneyThrows(filtered[k].revenue)
        THEN [threw |-> TRUE, rows |-> <<>>, totals |-> emptyTotals]
        ELSE [threw |-> FALSE,
              rows |-> sorted,
              totals |->
                  [spend |-> SumOver(sorted, LAMBDA r : r.spend),
                   leads |-> SumOver(sorted, LAMBDA r : r.leads),
                   booked |-> SumOver(sorted, LAMBDA r : r.booked),
                   sold |-> SumOver(sorted, LAMBDA r : r.sold),
                   cancelled |-> SumOver(sorted, LAMBDA r : r.cancelled),
                   soldAmount |-> SumOver(sorted, LAMBDA r : r.soldAmount),
                   revenue |-> SumOver(sorted, LAMBDA r : r.revenue),
                   avgReplyMins |-> average(replyValues(filtered))]]

\* the ratios with roasX taken from revenue
weeklyRatiosOfRevenue(t) ==
    [cpl |-> IF t.leads > 0 THEN Quot(t.spend, t.leads) ELSE Zero,
     costPerBooked |-> IF t.booked > 0 THEN Quot(t.spend, t.booked) ELSE Zero,
     roasX |-> IF t.spend > 0 THEN Quot(t.revenue, t.spend) ELSE Zero,
     bookingRate |-> IF t.leads > 0 THEN Quot(t.booked, t.leads) ELSE Zero,
     closeRate |-> IF t.booked > 0 THEN Quot(t.sold, t.booked) ELSE Zero,
     cancellingRate |-> IF t.booked > 0 THEN Quot(t.cancelled, t.booked) ELSE Zero]

weeklyRatios(t) ==
    [cpl |-> IF t.leads > 0 THEN Quot(t.spend, t.leads) ELSE Zero,
     costPerBooked |-> IF t.booked > 0 THEN Quot(t.spend, t.booked) ELSE Zero,
     roasX |-> IF t.spend > 0 THEN Quot(t.soldAmount, t.spend) ELSE Zero,
     bookingRate |-> IF t.leads > 0 THEN Quot(t.booked, t.leads) ELSE Zero,
     closeRate |-> IF t.booked > 0 THEN Quot(t.sold, t.booked) ELSE Zero,
     cancellingRate |-> IF t.booked > 0 THEN Quot(t.cancelled, t.booked) ELSE Zero]


(***************************************************************************)
(* Inputs: the forms a user submits, the files a user imports and the      *)
(* documents earlier releases of the client left in the collection         *)
(***************************************************************************)
MaxDocs == 2
MaxLegacy == 1

LeadInput(date, customer, leadSource, leadCost, jobWon, category, minutes,
          booked, sold, cancelled, soldAmount) ==
    [date |-> Str(date), customer |-> Str(customer), leadSource |-> Str(leadSource),
     jobType |-> Str("Service"), leadCost |-> Str(leadCost), jobWon |-> Str(jobWon),
     comments |-> Str(""), replyTimeCategory |-> Str(category),
     replyTimeMinutes |-> Str(minutes), booked |-> Str(booked), sold |-> Str(sold),
     cancelled |-> Str(cancelled), soldAmount |-> Str(soldAmount), revenue |-> Str(""),
     replyTime |-> Undef]

emptyLead ==
    [date |-> Str(""), customer |-> Str(""), leadSource |-> Str(""), jobType |-> Str(""),
     leadCost |-> Str(""), jobWon |-> Str("No"), comments |-> Str(""),
     replyTimeCategory |-> Str(defaultReplyCategory), replyTimeMinutes |-> Str(""),
     booked |-> Str("No"), sold |-> Str("No"), cancelled |-> Str("No"),
     soldAmount |-> Str(""), revenue |-> Str(""), replyTime |-> Undef]

\* what the lead form holds when it is submitted (date, customer, lead
\* source and job type are required inputs; the form has no control for jobWon)
FormInputs ==
    {LeadInput("2026-02-03", "Ann", "Yelp", "$15", "No", "7:00-3:30", "25",
               "Yes", "Yes", "No", "$350"),
     LeadInput("2026-02-05", "Ben", "Ads", "-5", "No", "Weekend", "",
               "No", "Yes", "Yes", "$100")}

\* documents written by the earlier releases of the client: the first
\* release stored jobWon and a free-text replyTime, the second added
\* replyTimeCategory and replyTimeMinutes, and the import of the third
\* stored the "reply time category" column as it came
LegacyDocs ==
    {[LeadInput("2026-02-01", "Curtis L.", "Yelp", "$0", "Yes", "", "", "", "", "", "")
        EXCEPT !.replyTimeCategory = Undef, !.replyTimeMinutes = Undef, !.booked = Undef,
               !.sold = Undef, !.cancelled = Undef, !.soldAmount = Undef,
               !.revenue = Undef, !.replyTime = Str("(Weekend): 214")],
     [LeadInput("2026-02-02", "Jordan", "Web", "$5", "No", "", "", "", "", "", "")
        EXCEPT !.replyTimeCategory = Undef, !.replyTimeMinutes = Undef, !.booked = Undef,
               !.sold = Undef, !.cancelled = Undef, !.soldAmount = Undef,
               !.revenue = Undef, !.replyTime = Str("")],
     LeadInput("2026-02-04", "Kim", "Yelp", "$20", "No", "Morning", "40",
               "Yes", "No", "No", "$0")}

File(name, text, ok, isArray, rows) ==
    [name |-> name, text |-> text, ok |-> ok, isArray |-> isArray, rows |-> rows]

\* name: the file name; text: file.text() of a delimited file; ok, isArray,
\* rows: whether JSON.parse / XLSX.read succeeds, whether the JSON value is
\* an array, and the objects of the array or of the first worksheet
Files ==
    {File("leads.csv",
          "Date,Customer,Lead Cost,Sold,Job Won\n2026-02-03,Ann,$15,no,yes\n,NoDate,$1,no,no\n"
              \o "soon,Gus,$2,yes,no",
          TRUE, TRUE, <<>>),
     File("Score.CSV", "Channel,FEB: 6\nChannel Performance\nYelp,2\nBrand & Reputation",
          TRUE, TRUE, <<>>),
     File("score.txt", "Channel,FEB: 6\nChannel Performance\nYelp,2\nBrand & Reputation",
          TRUE, TRUE, <<>>),
     File("caps.json", "", TRUE, TRUE,
          << << <<"Date", Str("2026-02-05")>>, <<"Customer", Str("Cy")>>,
                <<"Lead Source", Str("Ads")>> >> >>),
     File("leads.json", "", TRUE, TRUE,
          << << <<"date", Str("2026-02-06")>>, <<"customer", Str("Di")>>,
                <<"lead cost", NumLit("15")>>, <<"sold", Str("YES")>>,
                <<"job won", Str("no")>>, <<"booked", Str("maybe")>>,
                <<"reply time category", Str("weekend")>> >>,
             << <<"date", Str("2026-02-07")>>, <<"customer", Str("")>> >>,
             << <<"date", Str("2026-02-08")>>, <<"customer", Str("Ed")>>,
                <<"booked", NumLit("1")>> >> >>),
     File("broken.json", "", FALSE, FALSE, <<>>),
     File("Broken.XLSX", "", FALSE, FALSE, <<>>),
     File("book.xlsx", "", TRUE, TRUE,
          << << <<"Date", Str("2026-02-09")>>, <<"Customer", Str(" Flo ")>>,
                <<"Lead_Cost", NumLit("7.5")>>, <<"Booked", Str("YES")>> >> >>)}

\* scorecard exports: the week header, the section start, one channel row
\* (its name and zero, one or two week cells), optionally a second channel
\* row, the section end and a row after it; sep is the delimiter of the file
ScorecardInputs ==
    LET Cells == {"3", "0", "-3", "n/a", "2 booked", "", " 1 ", "\" 3\""}
    IN  {[name |-> name, cells |-> cells, second |-> second, sep |-> sep] :
            name \in {"Yelp", "Goal", ""},
            cells \in {<<>>} \cup {<<a>> : a \in Cells} \cup {<<a, b>> : a, b \in Cells},
            second \in BOOLEAN,
            sep \in {",", "\t"}}

scorecardFile(sc) ==
    LET row == sc.name
               \o (IF Len(sc.cells) >= 1 THEN sc.sep \o sc.cells[1] ELSE "")
               \o (IF Len(sc.cells) >= 2 THEN sc.sep \o sc.cells[2] ELSE "")
    IN  File("scorecard.csv",
             "Channel" \o sc.sep \o "JAN: 6" \o sc.sep \o "JAN: 13\nChannel Performance\n"
                 \o row \o "\n"
                 \o (IF sc.second THEN "Ads" \o sc.sep \o "1\n" ELSE "")
                 \o "Brand & Reputation\nReviews" \o sc.sep \o "4" \o sc.sep \o "4",
             TRUE, TRUE, <<>>)

endsWith(s, suffix) ==
    Len(s) >= Len(suffix) /\ SubSeq(s, Len(s) - Len(suffix) + 1, Len(s)) = suffix

(***************************************************************************)
(* What the writers put into the collection: the rows of a file, the       *)
(* document of an imported lead, the document of a submitted form          *)
(***************************************************************************)
SeqToSet(seq) == {seq[k] : k \in 1..Len(seq)}

isJson(lowerName) == endsWith(lowerName, ".json")
isSheet(lowerName) == endsWith(lowerName, ".xlsx") \/ endsWith(lowerName, ".xls")
isDelimited(lowerName) == endsWith(lowerName, ".csv") \/ endsWith(lowerName, ".tsv")

\* the rows of a worksheet: keys through normalizeHeader, values through
\* String(value ?? '').trim()
sheetRows(jsonRows) ==
    [r \in 1..Len(jsonRows) |->
        [k \in 1..Len(jsonRows[r]) |->
            <<normalizeHeader(jsonRows[r][k][1]), Str(trim(jsonRows[r][k][2].v))>>]]

\* the rows handleFileImport maps, by the extension of the file name
fileRows(file) ==
    LET lowerName == toLowerCase(file.name)
    IN  IF isJson(lowerName) THEN (IF file.isArray THEN file.rows ELSE <<>>)
        ELSE IF isSheet(lowerName) THEN sheetRows(file.rows)
        ELSE csvToRows(file.text)

\* files for the aliases of the Row Mapper: a sheet with both columns of the
\* customer, lead source and lead cost aliases and a Booked column, one data
\* row whose cells are filled in or empty; two JSON arrays of one object
\* whose values are numbers; and sheets whose Date column is labelled with
\* capitals, spaces, underscores or a byte order mark
AliasFiles ==
    {File("alias.csv",
          "Date,Customer,Name,Lead Source,Source,Lead Cost,Cost,Booked\n2026-02-03,"
              \o c \o "," \o n \o "," \o ls \o "," \o s \o "," \o lc \o ","
              \o co \o "," \o b,
          TRUE, TRUE, <<>>) :
        c \in {"", "Ann"}, n \in {"", "Bob"}, ls \in {"", "Yelp"}, s \in {"", "Ads"},
        lc \in {"", "$5"}, co \in {"", "$7"}, b \in {"", "yes", "maybe"}}
    \cup
    {File("alias.json", "", TRUE, TRUE,
          << << <<"date", Str("2026-02-03")>>, <<"customer", Str("Ed")>>,
                <<"lead cost", NumLit("0")>>, <<"cost", Str("$7")>> >> >>),
     File("count.json", "", TRUE, TRUE,
          << << <<"date", Str("2026-02-03")>>, <<"name", Str("Flo")>>,
                <<"booked", NumLit("1")>> >> >>)}
    \cup
    {File("header.csv", label \o ",Customer_Name,Lead__Source\n2026-02-03,Ann,Yelp",
          TRUE, TRUE, <<>>) :
        label \in {"Date", " DATE ", BOM \o "Date", "_date", "date_", "D_ate", "_"}}

\* files for the splitting of a line: a header of two columns and one line,
\* every text of up to MaxLineLen characters over a letter, the delimiter,
\* the double quote and the space, in a comma- and in a tab-delimited file
MaxLineLen == 4

QuoteFiles ==
    LET Texts[n \in 0..MaxLineLen, sep \in {",", "\t"}] ==
            IF n = 0 THEN {""}
            ELSE {t \o c : t \in Texts[n - 1, sep], c \in {"a", sep, "\"", " "}}
    IN  {File("cells.csv", "Date" \o sep \o "Customer\n" \o line, TRUE, TRUE, <<>>) :
            sep \in {",", "\t"}, line \in UNION {Texts[n, ","] \cup Texts[n, "\t"] : n \in 0..MaxLineLen}}

\* the lines of a scorecard export: the week header, the section start, the
\* section end, and a channel row named after its position n
sectionLine(kind, n) ==
    CASE kind = "header" -> "w,JAN:6"
      [] kind = "start" -> "CHANNEL Performance"
      [] kind = "end" -> "Brand & Reputation"
      [] OTHER -> Char("abcdefghijkl", n) \o ",1"

RECURSIVE sectionText(_, _)
sectionText(kinds, n) ==
    IF n > Len(kinds) THEN ""
    ELSE sectionLine(kinds[n], n) \o (IF n < Len(kinds) THEN "\n" ELSE "")
             \o sectionText(kinds, n + 1)

\* exports for the bounds of the channel section: every sequence of up to
\* MaxSectionLines lines, and a header, a start and 6 to 8 channel rows
\* with and without a section end after them
MaxSectionLines == 4

SectionFiles ==
    LET Kinds == {"header", "start", "end", "channel"}
        Seqs == UNION {[1..n -> Kinds] : n \in 2..MaxSectionLines}
        Long == {<<"header", "start">> \o [k \in 1..n |-> "channel"] \o tail :
                    n \in 6..8, tail \in {<<>>, <<"end">>}}
    IN  {File("section.csv", sectionText(kinds, 1), TRUE, TRUE, <<>>) : kinds \in Seqs \cup Long}

\* week headers of a scorecard export: days of the calendar, days past the
\* end of the month or of every month, day 0, three digits, a label that is no
\* month, lower case and a longer cell
WeekHeaders ==
    {"JAN: 6", "DEC:31", "FEB: 28", "FEB: 29", "FEB: 30", "APR: 31", "JAN: 0",
     "JAN: 45", "XYZ: 5", "jan: 128", "Week of MAR:  9"}

\* an export with one week column and one channel row of two leads
WeekFiles ==
    {File("weeks.csv", "w," \o h \o "\nChannel Performance\nYelp,2", TRUE, TRUE, <<>>) :
        h \in WeekHeaders}

\* fileRows of every file of the model
AllFiles ==
    Files \cup {scorecardFile(sc) : sc \in ScorecardInputs} \cup AliasFiles
        \cup QuoteFiles \cup SectionFiles \cup WeekFiles

FileRows == [file \in AllFiles |-> fileRows(file)]

\* the rows of every file of the model
AllRows == UNION {SeqToSet(FileRows[file]) : file \in AllFiles}

\* normalizeImportedLead of every row of every file of the model
mappedRow ==
    [row \in AllRows |->
        [threw |-> normalizeImportedLeadThrows(row), lead |-> normalizeImportedLead(row)]]

\* only JSON.parse throws
fileThrowsJson(file) == isJson(toLowerCase(file.name)) /\ ~file.ok

\* JSON.parse or XLSX.read throws
fileThrows(file) ==
    LET lowerName == toLowerCase(file.name)
    IN  (isJson(lowerName) \/ isSheet(lowerName)) /\ ~file.ok

\* the test that looks at the date alone
rejectedByDate(lead) == ~Truthy(lead.date)

\* a mapped row the import drops
rejected(lead) == ~Truthy(lead.date) \/ ~Truthy(lead.customer)

\* the lead written as it was mapped
importedAsMapped(lead) == lead

\* the document an import writes for a lead
importedDoc(lead) == [lead EXCEPT !.jobWon = lead.sold]

\* the document saveLead writes
normalizedForm(f) == [f EXCEPT !.jobWon = f.sold]

\* the documents the writers of the model produce
WrittenDocs ==
    LegacyDocs
    \cup {normalizedForm(f) : f \in FormInputs}
    \cup UNION {{importedDoc(normalizeImportedLead(FileRows[file][r])) :
                    r \in {q \in 1..Len(FileRows[file]) :
                             /\ ~normalizeImportedLeadThrows(FileRows[file][q])
                             /\ ~rejected(normalizeImportedLead(FileRows[file][q]))}} :
                file \in Files}
    \cup UNION {SeqToSet(parseScorecardToLeads(file.text)) : file \in Files}

(***************************************************************************)
(* State.  The lead form (form, editingId) is not kept between steps: what *)
(* it holds when it is submitted is the input of saveLead.                 *)
(***************************************************************************)
VARIABLES
    store,         \* the account's collection: store[id] = [exists, data, origin]
    leads,         \* the leads state, set by the subscription callback
    synced,        \* the subscription has delivered its first snapshot
    message,
    importStatus,  \* [kind, n]: the status line and the count it shows
    imp,           \* the handleFileImport call in flight
    selectedMonth, \* the month of the weekly dashboard, "YYYY-MM"
    selectedWeek,  \* its day range, "start-end"
    del,           \* the deleteAllLeads call in flight
    auth           \* the user state and the collections of the other accounts

vars == <<store, leads, synced, message, importStatus, imp, selectedMonth, selectedWeek, del, auth>>
selection == <<selectedMonth, selectedWeek>>

\* toMonthValue(new Date())
currentMonth == "2026-02"

\* no file chosen
NoFile == File("", "", TRUE, TRUE, <<>>)

Idle == [pc |-> "idle", file |-> NoFile, rows |-> <<>>, idx |-> 1,
         importedCount |-> 0, scorecardLeads |-> <<>>, created |-> <<>>]

Status(kind, n) == [kind |-> kind, n |-> n]

\* no deleteAllLeads call in flight.  docs: snapshot.docs as identifiers;
\* idx: the position of the for loop in it; deleted: the counter; issued and
\* commits are history: the number of identifiers the collection had issued
\* when the snapshot was read, and the batches committed so far
NoDelete == [pc |-> "idle", docs |-> <<>>, idx |-> 1, deleted |-> 0,
             issued |-> 0, commits |-> <<>>]

\* the accounts of the project, and user = null
Uids == {"A", "B"}
NoUser == ""

\* user: the user state; collections: users/<uid>/leads of the accounts that
\* are not signed in (store is the collection of the one that is); shown is
\* history: the account whose collection the leads state was last read from
SignedIn(uid, shown) ==
    [user |-> uid, collections |-> [u \in Uids |-> <<>>], shown |-> shown]

\* the collections the earlier releases can have left behind
LegacyStores ==
    UNION {[1..n -> {[exists |-> TRUE, data |-> d, origin |-> "legacy"] : d \in LegacyDocs}] :
              n \in 0..MaxLegacy}

Init ==
    /\ store \in LegacyStores
    /\ leads = <<>>
    /\ synced = FALSE
    /\ message = ""
    /\ importStatus = Status("", 0)
    /\ imp = Idle
    /\ selectedMonth = currentMonth
    /\ selectedWeek = "1-7"
    /\ del = NoDelete
    /\ auth = SignedIn("A", NoUser)

\* a write that keeps one document per content
addDocOnce(data, origin) ==
    IF \E id \in 1..Len(store) : store[id].exists /\ store[id].data = data
    THEN store
    ELSE Append(store, [exists |-> TRUE, data |-> data, origin |-> origin])

\* addDoc: a new document under a fresh identifier
addDoc(data, origin) == Append(store, [exists |-> TRUE, data |-> data, origin |-> origin])

\* what is left of a deleted document
Deleted == [exists |-> FALSE, data |-> emptyLead, origin |-> ""]

(***************************************************************************)
(* The live subscription: query(leadsRef, orderBy('date', 'desc'))         *)
(***************************************************************************)
\* the characters of the model's texts in the order of their code points
AsciiChars ==
    " \"$&(),-.0123456789:ABCDEFGHIJKLMNOPQRSTUVWXYZ_abcdefghijklmnopqrstuvwxyz~"

AsciiTable == [c \in CharsOf(AsciiChars) |-> IndexIn(AsciiChars, c)]

RECURSIVE TextLess(_, _, _)
\* a sorts before b, both compared from position i on
TextLess(a, b, i) ==
    IF i > Len(b) THEN FALSE
    ELSE IF i > Len(a) THEN TRUE
    ELSE IF Char(a, i) = Char(b, i) THEN TextLess(a, b, i + 1)
    ELSE AsciiTable[Char(a, i)] < AsciiTable[Char(b, i)]

\* the date texts of the inputs of the model, and TextLess over them
dateTexts ==
    {"", "2026-02-01", "2026-02-02", "2026-02-03", "2026-02-04", "2026-02-05",
     "2026-02-06", "2026-02-07", "2026-02-08", "2026-02-09", "soon"}
textLess == [a \in dateTexts |-> [b \in dateTexts |-> TextLess(a, b, 1)]]

\* the store's order of field values: numbers before strings
ValueLess(a, b) ==
    IF a.t # b.t THEN a.t = "number"
    ELSE IF a.t = "number" THEN StringToNumber(a.v).c < StringToNumber(b.v).c
    ELSE textLess[a.v][b.v]

LiveIds(st) == {id \in 1..Len(st) : st[id].exists}

\* the orders in which a snapshot can list the documents: by date
\* descending, documents of equal date in the order of their identifiers,
\* which are random
SnapshotOrders(st) ==
    LET ids == LiveIds(st)
        n == Cardinality(ids)
    IN  {o \in [1..n -> ids] :
            /\ \A i, j \in 1..n : i # j => o[i] # o[j]
            /\ \A i \in 1..(n - 1) : ~ValueLess(st[o[i]].data.date, st[o[i + 1]].data.date)}

\* the rows the subscription callback can compute from the collection st
Snapshots(st) ==
    {[k \in DOMAIN o |-> snapshotLead(o[k], st[o[k]].data)] : o \in SnapshotOrders(st)}

\* the first snapshot of the subscription
onSnapshot ==
    /\ auth.user # NoUser
    /\ ~synced
    /\ synced' = TRUE
    /\ leads' \in Snapshots(store)
    /\ auth' = [auth EXCEPT !.shown = auth.user]
    /\ UNCHANGED <<store, message, importStatus, imp, selection, del>>

\* the callback of onAuthStateChanged: setUser(nextUser), after a sign-in or
\* a sign-out with no import and no bulk delete in flight.  The effect of
\* [user] runs its cleanup, unsub(), and, for a user, subscribes to the
\* collection of that user; the leads state is left as it is
onAuthStateChanged(nextUser) ==
    /\ (auth.user = NoUser) # (nextUser = NoUser)
    /\ imp.pc = "idle" /\ del.pc = "idle"
    /\ auth' = IF nextUser = NoUser
               THEN [auth EXCEPT !.user = NoUser, !.collections[auth.user] = store]
               ELSE [auth EXCEPT !.user = nextUser, !.collections[nextUser] = <<>>]
    /\ store' = IF nextUser = NoUser THEN <<>> ELSE auth.collections[nextUser]
    /\ synced' = FALSE
    /\ UNCHANGED <<leads, message, importStatus, imp, selection, del>>

\* a write of this client reaches the subscription callback before the
\* write call returns (the store's latency compensation): setLeads(rows)
Notified(st) ==
    IF synced THEN leads' \in Snapshots(st) ELSE leads' = leads

(***************************************************************************)
(* The lead form: onEdit, saveLead, onDelete                               *)
(***************************************************************************)
\* the form onEdit fills in from a lead of the table
editForm(lead) ==
    [date |-> lead.date, customer |-> lead.customer,
     leadSource |-> lead.leadSource, jobType |-> lead.jobType,
     leadCost |-> lead.leadCost, jobWon |-> lead.jobWon,
     comments |-> lead.comments,
     replyTimeCategory |-> Or(lead.replyTimeCategory, Str(defaultReplyCategory)),
     replyTimeMinutes |-> Or(lead.replyTimeMinutes, Str("")),
     booked |-> lead.booked, sold |-> lead.sold, cancelled |-> lead.cancelled,
     soldAmount |-> Or(lead.soldAmount, Str("")),
     revenue |-> Or(lead.revenue, Str("")),
     replyTime |-> Undef]

\* updateDoc: the fields written replace the stored ones, the others stay
updateDoc(old, data) == [data EXCEPT !.replyTime = old.replyTime]

\* the required inputs of the form are filled in
submittable(f) ==
    Truthy(f.date) /\ Truthy(f.customer) /\ Truthy(f.leadSource) /\ Truthy(f.jobType)

\* saveLead with editingId = null: openNewLeadModal, the form filled in as f
saveLeadCreate(f) ==
    /\ submittable(f)
    /\ Len(store) < MaxDocs
    /\ store' = addDoc(normalizedForm(f), "saveLead")
    /\ Notified(store')
    /\ message' = ""
    /\ UNCHANGED <<synced, importStatus, imp, selection, del, auth>>

\* saveLead with editingId = lead.id: onEdit(lead), the form submitted as f
saveLeadUpdate(lead, f) ==
    /\ submittable(f)
    /\ IF store[lead.id].exists
       THEN /\ store' = [store EXCEPT ![lead.id] =
                   [exists |-> TRUE,
                    data |-> updateDoc(store[lead.id].data, normalizedForm(f)),
                    origin |-> "saveLead"]]
            /\ message' = ""
       ELSE /\ message' = "No document to update"
            /\ UNCHANGED store
    /\ Notified(store')
    /\ UNCHANGED <<synced, importStatus, imp, selection, del, auth>>

onDelete(id) ==
    /\ store[id].exists
    /\ store' = [store EXCEPT ![id] = Deleted]
    /\ Notified(store')
    /\ UNCHANGED <<synced, message, importStatus, imp, selection, del, auth>>

(***************************************************************************)
(* deleteAllLeads.  The handler runs up to its next await in one step: the *)
(* read of the collection, then each batch.commit() with the passes of the *)
(* for loop that filled the batch.                                         *)
(***************************************************************************)
\* opCount === 400: the number of deletes a batch takes before its commit
BatchLimit == 400

\* the documents of snapshot.docs, as identifiers in increasing order
snapshotDocs(st) ==
    SelectSeq([id \in 1..Len(st) |-> id], LAMBDA id : st[id].exists)

\* the for loop filling one batch with every document that remains
batchEndUnlimited(idx, n) == n

\* the last position of snapshot.docs the for loop puts in the batch that
\* starts at position idx: opCount reaches 400 or the documents end
batchEnd(idx, n) == IF idx + BatchLimit - 1 < n THEN idx + BatchLimit - 1 ELSE n

\* the button, confirmed: getDocs, the empty case, or the loop begun
deleteAllLeads ==
    /\ del.pc # "loop"
    /\ \E docs \in {snapshotDocs(store)} :
          IF docs = <<>>
          THEN /\ message' = "No leads to delete."
               /\ del' = [NoDelete EXCEPT !.pc = "done", !.issued = Len(store)]
          ELSE /\ del' = [NoDelete EXCEPT !.pc = "loop", !.docs = docs,
                                          !.issued = Len(store)]
               /\ UNCHANGED message
    /\ UNCHANGED <<store, leads, synced, importStatus, imp, selection, auth>>

\* batch.delete(row.ref) for the rows of one batch, await batch.commit(),
\* and after the last batch setMessage
deleteBatchCommit ==
    /\ del.pc = "loop"
    /\ \E last \in {batchEnd(del.idx, Len(del.docs))} :
       \E batch \in {{del.docs[k] : k \in del.idx..last}} :
          /\ store' = [id \in 1..Len(store) |->
                          IF id \in batch THEN Deleted ELSE store[id]]
          /\ del' = [del EXCEPT !.idx = last + 1,
                                !.deleted = del.deleted + (last + 1 - del.idx),
                                !.commits = Append(del.commits, batch),
                                !.pc = IF last = Len(del.docs) THEN "done" ELSE "loop"]
          /\ message' = IF last = Len(del.docs)
                        THEN "Deleted " \o NatToString(del'.deleted) \o " leads."
                        ELSE message
    /\ Notified(store')
    /\ UNCHANGED <<synced, importStatus, imp, selection, auth>>

\* batch.commit() rejects: the handler has no catch, the call ends there
deleteCommitFails ==
    /\ del.pc = "loop"
    /\ del' = [del EXCEPT !.pc = "failed"]
    /\ UNCHANGED <<store, leads, synced, message, importStatus, imp, selection, auth>>

(***************************************************************************)
(* handleFileImport.  The handler runs up to its next await in one step:   *)
(* reading the file, each pass of the row loop with its addDoc, the gate   *)
(* of the scorecard fallback, each pass of the scorecard loop, the status. *)
(* imp keeps the locals of the call; imp.created lists the documents the   *)
(* call has written so far.                                                *)
(***************************************************************************)
\* the gate that does not look at the file name
scorecardGateAnyName(importedCount, lowerName) == importedCount = 0

\* the gate that does not look at the count
scorecardGateAnyCount(importedCount, lowerName) == isDelimited(lowerName)

\* the fallback gate after the row loop
scorecardGate(importedCount, lowerName) == importedCount = 0 /\ isDelimited(lowerName)

finalStatus(importedCount) ==
    IF importedCount = 0 THEN Status("zero", 0) ELSE Status("imported", importedCount)

handleFileImport(file) ==
    /\ imp.pc = "idle"
    /\ IF fileThrows(file)
       THEN /\ importStatus' = Status("failed", 0)
            /\ imp' = Idle
       ELSE IF Len(FileRows[file]) = 0
       THEN /\ importStatus' = Status("norows", 0)
            /\ imp' = Idle
       ELSE /\ importStatus' = Status("importing", 0)
            /\ imp' = [Idle EXCEPT !.pc = "rows", !.file = file, !.rows = FileRows[file]]
    /\ UNCHANGED <<store, leads, synced, message, selection, del, auth>>

\* one pass of the row loop
ImportRow ==
    /\ imp.pc = "rows" /\ imp.idx <= Len(imp.rows)
    /\ \E mapped \in {mappedRow[imp.rows[imp.idx]]} :
           IF mapped.threw
           THEN /\ importStatus' = Status("failed", 0)
                /\ imp' = Idle
                /\ UNCHANGED store
           ELSE IF rejected(mapped.lead)
           THEN /\ imp' = [imp EXCEPT !.idx = @ + 1]
                /\ UNCHANGED <<store, importStatus>>
           ELSE /\ Len(store) < MaxDocs
                /\ store' = addDoc(importedDoc(mapped.lead), "import")
                /\ imp' = [imp EXCEPT !.idx = @ + 1, !.importedCount = @ + 1,
                                      !.created = Append(@, importedDoc(mapped.lead))]
                /\ UNCHANGED importStatus
    /\ Notified(store')
    /\ UNCHANGED <<synced, message, selection, del, auth>>

\* the end of the row loop: the scorecard fallback or the final status
ImportRowsDone ==
    /\ imp.pc = "rows" /\ imp.idx > Len(imp.rows)
    /\ IF scorecardGate(imp.importedCount, toLowerCase(imp.file.name))
       THEN /\ imp' = [imp EXCEPT !.pc = "scorecard", !.idx = 1,
                                  !.scorecardLeads = parseScorecardToLeads(imp.file.text)]
            /\ UNCHANGED importStatus
       ELSE /\ imp' = Idle
            /\ importStatus' = finalStatus(imp.importedCount)
    /\ UNCHANGED <<store, leads, synced, message, selection, del, auth>>

\* one pass of the scorecard loop
ImportScorecardLead ==
    /\ imp.pc = "scorecard" /\ imp.idx <= Len(imp.scorecardLeads)
    /\ Len(store) < MaxDocs
    /\ store' = addDoc(importedDoc(imp.scorecardLeads[imp.idx]), "scorecard")
    /\ imp' = [imp EXCEPT !.idx = @ + 1, !.importedCount = @ + 1,
                          !.created = Append(@, importedDoc(imp.scorecardLeads[imp.idx]))]
    /\ Notified(store')
    /\ UNCHANGED <<synced, message, importStatus, selection, del, auth>>

ImportScorecardDone ==
    /\ imp.pc = "scorecard" /\ imp.idx > Len(imp.scorecardLeads)
    /\ imp' = Idle
    /\ importStatus' = finalStatus(imp.importedCount)
    /\ UNCHANGED <<store, leads, synced, message, selection, del, auth>>

\* a rejected addDoc skipped, the loop going on with the next row
ImportWriteSkipped ==
    /\ \/ /\ imp.pc = "rows" /\ imp.idx <= Len(imp.rows)
          /\ \E mapped \in {mappedRow[imp.rows[imp.idx]]} :
                 ~mapped.threw /\ ~rejected(mapped.lead)
       \/ imp.pc = "scorecard" /\ imp.idx <= Len(imp.scorecardLeads)
    /\ imp' = [imp EXCEPT !.idx = @ + 1]
    /\ UNCHANGED <<store, leads, synced, message, importStatus, selection, del, auth>>

\* the addDoc the import awaits is rejected by the store: the catch block
ImportWriteFails ==
    /\ \/ /\ imp.pc = "rows" /\ imp.idx <= Len(imp.rows)
          /\ \E mapped \in {mappedRow[imp.rows[imp.idx]]} :
                 ~mapped.threw /\ ~rejected(mapped.lead)
       \/ imp.pc = "scorecard" /\ imp.idx <= Len(imp.scorecardLeads)
    /\ importStatus' = Status("failed", 0)
    /\ imp' = Idle
    /\ UNCHANGED <<store, leads, synced, message, selection, del, auth>>

(***************************************************************************)
(* The weekly dashboard: the month input, the week select and the effect   *)
(* that resets a week the month does not have                              *)
(***************************************************************************)
\* the values the month input delivers ('' when it is cleared)
Months == {"2026-02", "2026-04", ""}

\* every month of a leap year and of a common year, and the cleared input
Calendar == {NatToString(y) \o "-" \o Pad2(m) : y \in {2024, 2026}, m \in 1..12} \cup {""}

\* const monthWeeks = useMemo(..., [selectedMonth]): the ranges of a month
\* are computed once for the month
weeksOfMonth == [month \in Calendar \cup Months \cup {currentMonth} |-> monthWeeks(month)]

setSelectedMonth(month) ==
    /\ month # selectedMonth
    /\ selectedMonth' = month
    /\ UNCHANGED <<store, leads, synced, message, importStatus, imp, selectedWeek, del, auth>>

\* the options of the week select are the ranges of monthWeeks
setSelectedWeek(week) ==
    /\ week \in SeqToSet(weeksOfMonth[selectedMonth])
    /\ week # selectedWeek
    /\ selectedWeek' = week
    /\ UNCHANGED <<store, leads, synced, message, importStatus, imp, selectedMonth, del, auth>>

\* the effect choosing the last range of the month
weekResetToLast ==
    /\ selectedWeek \notin SeqToSet(weeksOfMonth[selectedMonth])
    /\ selectedWeek' = weeksOfMonth[selectedMonth][Len(weeksOfMonth[selectedMonth])]
    /\ UNCHANGED <<store, leads, synced, message, importStatus, imp, selectedMonth, del, auth>>

\* useEffect(..., [monthWeeks, selectedWeek]): it runs after the render in
\* which the week is not one of the ranges of the month
weekResetEffect ==
    /\ selectedWeek \notin SeqToSet(weeksOfMonth[selectedMonth])
    /\ selectedWeek' = weeksOfMonth[selectedMonth][1]
    /\ UNCHANGED <<store, leads, synced, message, importStatus, imp, selectedMonth, del, auth>>

\* two more forms of one week: source A with a cost of 100 and booked, and,
\* a day later, source B with a cost of 50 and not booked
DashboardDocs ==
    WrittenDocs
    \cup {normalizedForm(LeadInput("2026-02-06", "Hal", "A", "$100", "No", "7:00-3:30", "10",
                                   "Yes", "No", "No", "")),
          normalizedForm(LeadInput("2026-02-07", "Ida", "B", "$50", "No", "7:00-3:30", "20",
                                   "No", "No", "No", ""))}

\* the dashboard over a collection that holds some of these documents
InitWeekly ==
    /\ store \in UNION {[1..n -> {[exists |-> TRUE, data |-> d, origin |-> "any"] :
                                     d \in DashboardDocs}] : n \in 0..MaxDocs}
    /\ leads \in Snapshots(store)
    /\ synced = TRUE
    /\ message = ""
    /\ importStatus = Status("", 0)
    /\ imp = Idle
    /\ selectedMonth = currentMonth
    /\ selectedWeek = "1-7"
    /\ del = NoDelete
    /\ auth = SignedIn("A", "A")

NextWeekly ==
    \/ \E month \in Months : setSelectedMonth(month)
    \/ \E week \in SeqToSet(weeksOfMonth[selectedMonth]) : setSelectedWeek(week)
    \/ weekResetEffect

SpecWeekly == InitWeekly /\ [][NextWeekly]_vars

\* an account without documents
InitEmpty == Init /\ store = <<>>

\* the month and week controls over the months of Calendar
NextMonths ==
    \/ \E month \in Calendar : setSelectedMonth(month)
    \/ \E week \in SeqToSet(weeksOfMonth[selectedMonth]) : setSelectedWeek(week)
    \/ weekResetEffect

SpecMonths == InitEmpty /\ [][NextMonths]_vars

\* React runs a pending effect after every render
SpecMonthsFair == SpecMonths /\ WF_vars(weekResetEffect)

\* two accounts signing in and out of one browser tab
InitAuth ==
    /\ store = <<>>
    /\ leads = <<>>
    /\ synced = FALSE
    /\ message = ""
    /\ importStatus = Status("", 0)
    /\ imp = Idle
    /\ selectedMonth = currentMonth
    /\ selectedWeek = "1-7"
    /\ del = NoDelete
    /\ auth = SignedIn(NoUser, NoUser)

NextAuth ==
    \/ \E nextUser \in Uids \cup {NoUser} : onAuthStateChanged(nextUser)
    \/ onSnapshot
    \/ \E f \in FormInputs : auth.user # NoUser /\ saveLeadCreate(f)

SpecAuth == InitAuth /\ [][NextAuth]_vars

\* the import of a scorecard export into an empty collection

NextScorecard ==
    \/ \E sc \in ScorecardInputs : store = <<>> /\ handleFileImport(scorecardFile(sc))
    \/ \E file \in SectionFiles \cup WeekFiles : store = <<>> /\ handleFileImport(file)
    \/ ImportRow
    \/ ImportRowsDone
    \/ ImportScorecardLead
    \/ ImportScorecardDone
    \/ ImportWriteFails

SpecScorecard == InitEmpty /\ [][NextScorecard]_vars

\* the bulk delete over collections of sizes around the batch limit, before
\* the subscription's first snapshot, with leads created from the form
\* while it runs
InitBulk ==
    /\ \E n \in {0, 1, BatchLimit - 1, BatchLimit, BatchLimit + 1,
                  2 * BatchLimit, 2 * BatchLimit + 1} :
       \E d \in LegacyDocs :
          store = [id \in 1..n |-> [exists |-> TRUE, data |-> d, origin |-> "any"]]
    /\ leads = <<>>
    /\ synced = FALSE
    /\ message = ""
    /\ importStatus = Status("", 0)
    /\ imp = Idle
    /\ selectedMonth = currentMonth
    /\ selectedWeek = "1-7"
    /\ del = NoDelete
    /\ auth = SignedIn("A", NoUser)

NextBulk ==
    \/ deleteAllLeads
    \/ deleteBatchCommit
    \/ deleteCommitFails
    \/ \E f \in FormInputs : saveLeadCreate(f)

SpecBulk == InitBulk /\ [][NextBulk]_vars

\* texts of the lead cost input: every text of up to MaxMoneyLen characters
\* over a currency sign, digits, the dot, the minus sign, a letter and a
\* space, and the values the README names
MaxMoneyLen == 3

MoneyTexts ==
    LET Alphabet == {"$", "1", "5", "0", ".", "-", "a", " "}
        Texts[n \in 0..MaxMoneyLen] ==
            IF n = 0 THEN {""} ELSE {t \o c : t \in Texts[n - 1], c \in Alphabet}
    IN  UNION {Texts[n] : n \in 0..MaxMoneyLen} \cup {"abc", "$1,250.50", "15"}

\* the form saved with a lead cost of MoneyTexts into an empty collection
\* and the dashboard over it; the import of a file of AliasFiles or of
\* QuoteFiles into an empty collection
NextInputs ==
    \/ \E cost \in MoneyTexts :
           /\ store = <<>> /\ imp.pc = "idle"
           /\ saveLeadCreate(LeadInput("2026-02-03", "Ann", "Yelp", cost, "No",
                                       "7:00-3:30", "25", "Yes", "No", "No", ""))
    \/ onSnapshot
    \/ \E file \in AliasFiles \cup QuoteFiles : store = <<>> /\ handleFileImport(file)
    \/ ImportRow
    \/ ImportRowsDone
    \/ ImportScorecardDone
    \/ ImportWriteFails

SpecInputs == InitEmpty /\ [][NextInputs]_vars

Next ==
    \/ \E f \in FormInputs : saveLeadCreate(f)
    \/ \E k \in 1..Len(leads) : \E f \in FormInputs \cup {editForm(leads[k])} :
           saveLeadUpdate(leads[k], f)
    \/ \E id \in 1..Len(store) : onDelete(id)
    \/ onSnapshot
    \/ \E file \in Files : handleFileImport(file)
    \/ ImportRow
    \/ ImportRowsDone
    \/ ImportScorecardLead
    \/ ImportScorecardDone
    \/ ImportWriteFails

Spec == Init /\ [][Next]_vars

(***************************************************************************)
(* Properties.  DocOf(lead) is the stored document a lead of the table was *)
(* computed from: after the first snapshot the table follows every write.  *)
(***************************************************************************)
DocOf(lead) == store[lead.id].data

\* a lead that carries no reply time at all
NoReplyData(lead) == lead.replyTimeMinutes = Str("") /\ ~Truthy(lead.replyTime)

\* C1, as the specification states it: a lead whose replyTimeMinutes is
\* empty and whose replyTime is empty or absent resolves to no value, and
\* the reply times that enter the averages leave every such lead out.
C1_EmptyReplyExcluded ==
    /\ \A k \in 1..Len(leads) : NoReplyData(leads[k]) => getReplyMinutes(leads[k]).null
    /\ Len(replyValues(leads)) <= Len(leads) - Count(leads, NoReplyData)

AtEmptyRow ==
    /\ imp.pc = "rows" /\ imp.idx <= Len(imp.rows)
    /\ ~normalizeImportedLeadThrows(imp.rows[imp.idx])
    /\ \/ normalizeImportedLead(imp.rows[imp.idx]).date = Str("")
       \/ normalizeImportedLead(imp.rows[imp.idx]).customer = Str("")

\* C3: an import never writes a row whose date or customer resolves to the
\* empty string and does not count it: the count it keeps is the number of
\* documents it has created, none of them has an empty date or customer,
\* and the number of the "Imported N leads" status is that count.
C3_RejectedRowsNotWritten ==
    /\ [](/\ imp.importedCount = Len(imp.created)
          /\ \A k \in 1..Len(imp.created) :
                 imp.created[k].date # Str("") /\ imp.created[k].customer # Str(""))
    /\ [][/\ (imp' # imp /\ imp'.pc = "rows" /\ AtEmptyRow)
              => (store' = store /\ imp'.created = imp.created)
          /\ (imp'.pc # "idle" /\ imp'.created # imp.created)
              => (/\ Len(imp'.created) = Len(imp.created) + 1
                  /\ Len(store') = Len(store) + 1
                  /\ store'[Len(store')].data = imp'.created[Len(imp'.created)])
          /\ (imp.pc # "idle" /\ imp'.pc = "idle" /\ importStatus'.kind = "imported")
              => (importStatus'.n = Len(imp.created) /\ store' = store)
          /\ (imp.pc # "idle" /\ imp'.pc = "idle" /\ importStatus'.kind = "zero")
              => (Len(imp.created) = 0 /\ store' = store)]_vars

\* the row loop of leads.csv has ended: the first and the third row
\* written, the row without a date dropped
C3_Witness ==
    /\ imp.pc = "rows" /\ imp.file.name = "leads.csv"
    /\ Len(imp.rows) = 3 /\ imp.idx > Len(imp.rows)
    /\ imp.importedCount = 2
    /\ imp.created[1].customer = Str("Ann")
    /\ imp.created[2].customer = Str("Gus")

\* C4: every document written by saveLead or by an import has jobWon equal
\* to sold, and every lead of the table has jobWon equal to sold.
C4_JobWonMirrorsSold ==
    /\ \A id \in LiveIds(store) :
           store[id].origin \in {"saveLead", "import", "scorecard"}
               => store[id].data.jobWon = store[id].data.sold
    /\ \A k \in 1..Len(imp.created) : imp.created[k].jobWon = imp.created[k].sold
    /\ \A k \in 1..Len(leads) : leads[k].jobWon = leads[k].sold

\* the row of leads.csv whose Sold column says no and whose Job Won column
\* says yes is in the collection and in the table
C4_Witness ==
    \E k \in 1..Len(leads) :
        /\ store[leads[k].id].origin = "import"
        /\ DocOf(leads[k]).customer = Str("Ann")
        /\ DocOf(leads[k]).sold = Str("No")
        /\ leads[k].jobWon = Str("No")

\* a row with its keys through normalizeHeader
NormalizedKeys(row) == [k \in 1..Len(row) |-> <<normalizeHeader(row[k][1]), row[k][2]>>]

\* C5, as the specification states it: the objects of a .json file are
\* mapped as if their keys had gone through normalizeHeader, that is, as the
\* columns of a delimited file with these headers are.
C5_JsonKeysNormalized ==
    (imp.pc = "rows" /\ isJson(toLowerCase(imp.file.name))) =>
        \A r \in 1..Len(imp.rows) :
            /\ normalizeImportedLeadThrows(imp.rows[r])
                   = normalizeImportedLeadThrows(NormalizedKeys(imp.rows[r]))
            /\ normalizeImportedLead(imp.rows[r])
                   = normalizeImportedLead(NormalizedKeys(imp.rows[r]))

\* the row loop of the import in flight has ended without a row accepted
NoRowAccepted == imp.pc = "rows" /\ imp.idx > Len(imp.rows) /\ imp.importedCount = 0

\* C6, as the specification states it: when no row of a file that is
\* neither .json nor a workbook was accepted, the import goes on with
\* parseScorecardToLeads of the file's text.
C6_ScorecardFallbackAnyName ==
    [][(/\ NoRowAccepted /\ imp' # imp
        /\ ~isJson(toLowerCase(imp.file.name)) /\ ~isSheet(toLowerCase(imp.file.name)))
          => (/\ imp'.pc = "scorecard"
              /\ imp'.scorecardLeads = parseScorecardToLeads(imp.file.text))]_vars

\* C6, amended: the import goes on with parseScorecardToLeads of the file's
\* text when no row was accepted and the file name ends in .csv or .tsv, and
\* writes its leads one after the other; under any other name it ends with
\* the "Imported 0 rows" status.
C6_ScorecardFallbackCsvTsv ==
    [][/\ (NoRowAccepted /\ imp' # imp)
           => IF endsWith(toLowerCase(imp.file.name), ".csv")
                 \/ endsWith(toLowerCase(imp.file.name), ".tsv")
              THEN /\ imp'.pc = "scorecard"
                   /\ imp'.scorecardLeads = parseScorecardToLeads(imp.file.text)
              ELSE /\ imp'.pc = "idle"
                   /\ importStatus' = Status("zero", 0)
                   /\ store' = store
       /\ (imp.pc = "scorecard" /\ imp'.pc = "scorecard" /\ imp' # imp)
           => (/\ imp.idx <= Len(imp.scorecardLeads)
               /\ imp'.idx = imp.idx + 1
               /\ store' = Append(store, [exists |-> TRUE,
                                          data |-> [imp.scorecardLeads[imp.idx] EXCEPT
                                                       !.jobWon = imp.scorecardLeads[imp.idx].sold],
                                          origin |-> "scorecard"]))]_vars

\* the fallback on Score.CSV has written a lead of the scorecard
C6_Witness ==
    /\ imp.pc = "scorecard" /\ imp.file.name = "Score.CSV"
    /\ imp.idx > 1
    /\ \E id \in LiveIds(store) :
           /\ store[id].origin = "scorecard"
           /\ store[id].data.leadSource = Str("Yelp")

BooleanFields(r) == {r.jobWon, r.booked, r.sold, r.cancelled}

C8_ReplyCategoryEnumerated ==
    /\ \A k \in 1..Len(imp.created) :
           IsStr(imp.created[k].replyTimeCategory) /\ imp.created[k].replyTimeCategory.v \in allowed
    /\ \A k \in 1..Len(leads) :
           /\ IsStr(leads[k].replyTimeCategory) /\ leads[k].replyTimeCategory.v \in allowed
           /\ (~IsStr(DocOf(leads[k]).replyTimeCategory)
                  \/ DocOf(leads[k]).replyTimeCategory.v \notin allowed)
                 => leads[k].replyTimeCategory = Str(defaultReplyCategory)

\* C9, as the specification states it: over the leads of the table stats,
\* weekly and weeklyRatios complete without an exception, and no result is
\* a division by zero.
C9_AggregationNeverFails ==
    LET s == stats(leads)
        w == weekly(leads, selectedMonth, selectedWeek)
        r == weeklyRatios(w.totals)
    IN  /\ ~s.threw
        /\ ~w.threw
        /\ s.winRate.d # 0 /\ s.avgReplyTime.d # 0 /\ w.totals.avgReplyMins.d # 0
        /\ \A k \in 1..Len(w.rows) : w.rows[k].cpl.d # 0
        /\ r.cpl.d # 0 /\ r.costPerBooked.d # 0 /\ r.roasX.d # 0
        /\ r.bookingRate.d # 0 /\ r.closeRate.d # 0 /\ r.cancellingRate.d # 0

\* the quotient r is num / den
RatioIs(r, num, den) == r.d # 0 /\ den # 0 /\ r.n * den = num * r.d
IsZero(r) == r.d # 0 /\ r.n = 0
QuotientOrZero(r, num, den) == IF den # 0 THEN RatioIs(r, num, den) ELSE IsZero(r)

\* C10, as the specification states it: each ratio over the weekly totals
\* is its quotient when the denominator is not zero and 0 when it is.
C10_RatiosQuotientOrZero ==
    LET w == weekly(leads, selectedMonth, selectedWeek)
        t == w.totals
        r == weeklyRatios(t)
    IN  ~w.threw =>
            /\ QuotientOrZero(r.cpl, t.spend, t.leads)
            /\ QuotientOrZero(r.costPerBooked, t.spend, t.booked)
            /\ QuotientOrZero(r.roasX, t.soldAmount, t.spend)
            /\ QuotientOrZero(r.bookingRate, t.booked, t.leads)
            /\ QuotientOrZero(r.closeRate, t.sold, t.booked)
            /\ QuotientOrZero(r.cancellingRate, t.cancelled, t.booked)

\* C10, amended: roasX is soldAmount / spend when the spend is above zero
\* and 0 when it is zero or negative; the other five ratios are their
\* quotient when the denominator is not zero and 0 when it is.
C10_RatiosGuarded ==
    LET w == weekly(leads, selectedMonth, selectedWeek)
        t == w.totals
        r == weeklyRatios(t)
    IN  ~w.threw =>
            /\ QuotientOrZero(r.cpl, t.spend, t.leads)
            /\ QuotientOrZero(r.costPerBooked, t.spend, t.booked)
            /\ IF t.spend > 0 THEN RatioIs(r.roasX, t.soldAmount, t.spend) ELSE IsZero(r.roasX)
            /\ QuotientOrZero(r.bookingRate, t.booked, t.leads)
            /\ QuotientOrZero(r.closeRate, t.sold, t.booked)
            /\ QuotientOrZero(r.cancellingRate, t.cancelled, t.booked)

\* the selected week holds leads, none of them booked, a sold amount and a
\* total spend below zero
C10_Witness ==
    LET w == weekly(leads, selectedMonth, selectedWeek)
    IN  /\ ~w.threw
        /\ w.totals.leads > 0 /\ w.totals.booked = 0
        /\ w.totals.spend < 0 /\ w.totals.soldAmount > 0

\* the day ranges of the selected month, read back as the weekly view reads
\* the selected week: <<first day, last day>>
WeekRanges ==
    LET weeks == weeksOfMonth[selectedMonth]
    IN  [k \in 1..Len(weeks) |-> <<PartNumber(weeks[k], 1), PartNumber(weeks[k], 2)>>]

ValidMonth == PartNumber(selectedMonth, 1) # 0 /\ PartNumber(selectedMonth, 2) \in 1..12

\* C11: for a valid year-month the ranges of monthWeeks are contiguous and
\* ascending, the first starts at day 1, the last ends at the last day of the
\* month, each has at most 7 days and all but the last exactly 7, every day
\* of the month lies in exactly one range, and a 30-day month gives
\* 1-7, 8-14, 15-21, 22-28, 29-30.
C11_MonthWeeksPartition ==
    LET r == WeekRanges
        n == Len(r)
        lastDay == DaysInMonth(PartNumber(selectedMonth, 1), PartNumber(selectedMonth, 2))
    IN  ValidMonth =>
            /\ n >= 1 /\ r[1][1] = 1 /\ r[n][2] = lastDay
            /\ \A k \in 1..n : r[k][1] <= r[k][2] /\ r[k][2] - r[k][1] + 1 <= 7
            /\ \A k \in 1..(n - 1) : r[k][2] - r[k][1] + 1 = 7 /\ r[k + 1][1] = r[k][2] + 1
            /\ \A day \in 1..lastDay :
                   Cardinality({k \in 1..n : r[k][1] <= day /\ day <= r[k][2]}) = 1
            /\ lastDay = 30 =>
                   weeksOfMonth[selectedMonth] = <<"1-7", "8-14", "15-21", "22-28", "29-30">>

\* a 30-day month is selected and its fifth range is on display
C11_Witness ==
    /\ selectedMonth = "2026-11"
    /\ Len(weeksOfMonth[selectedMonth]) = 5
    /\ selectedWeek = "29-30"

\* the channel rows of a scorecard export between the section start and the
\* section end
ChannelRows(sc) ==
    <<[name |-> sc.name, cells |-> sc.cells]>>
        \o (IF sc.second THEN <<[name |-> "Ads", cells |-> <<"1">>]>> ELSE <<>>)

\* a row that names a channel: its name is not empty and does not hold
\* "goal" or "actual"
KeptRow(row) == row.name \in {"Yelp", "Ads"}

\* the count a week cell states: its first embedded integer, 0 when the cell
\* is missing or holds no integer
CellCount(row, w) ==
    IF w > Len(row.cells) THEN 0
    ELSE CASE row.cells[w] \in {"3", "\" 3\""} -> 3
           [] row.cells[w] = "2 booked" -> 2
           [] row.cells[w] \in {"1", " 1 "} -> 1
           [] row.cells[w] = "-3" -> 0 - 3
           [] OTHER -> 0

\* the date of the week columns JAN: 6 and JAN: 13
WeekDate(w) == NatToString(currentYear) \o (IF w = 1 THEN "-01-06" ELSE "-01-13")

\* the leads the transformer produced for a channel and a week
LeadsFor(source, w) ==
    SelectSeq(imp.scorecardLeads,
              LAMBDA l : l.leadSource = Str(source) /\ l.date = Str(WeekDate(w)))

\* the transformer has run on the export sc
Transformed(sc) == imp.pc = "scorecard" /\ imp.file = scorecardFile(sc)

\* C12: every kept channel row and week column whose cell states a count
\* c >= 1 gives exactly c leads of that channel and week date, with the
\* customers "Imported <source> Lead 1" .. "Imported <source> Lead c", and
\* the number of leads produced is the sum of those counts.
C12_ScorecardLeadsPerCount ==
    imp.pc = "scorecard" => \A sc \in ScorecardInputs :
        Transformed(sc) =>
            LET rows == ChannelRows(sc)
                kept == {r \in 1..Len(rows) : KeptRow(rows[r])}
                counted == {<<r, w>> \in kept \X {1, 2} : CellCount(rows[r], w) >= 1}
            IN  /\ \A rw \in counted :
                       LET row == rows[rw[1]]
                           c == CellCount(row, rw[2])
                           made == LeadsFor(row.name, rw[2])
                       IN  /\ Len(made) = c
                           /\ \A n \in 1..Len(made) :
                                  made[n].customer =
                                      Str("Imported " \o row.name \o " Lead " \o NatToString(n))
                /\ Len(imp.scorecardLeads) =
                       Sum([r \in 1..Len(rows) |->
                               Sum([w \in 1..2 |->
                                       IF <<r, w>> \in counted THEN CellCount(rows[r], w) ELSE 0])])

\* C13: a week cell that is missing, holds no integer or states a count of 0
\* or less gives no lead for that channel and week.
C13_NoLeadsWithoutPositiveCount ==
    imp.pc = "scorecard" => \A sc \in ScorecardInputs :
        Transformed(sc) =>
            \A r \in 1..Len(ChannelRows(sc)) : \A w \in {1, 2} :
                (KeptRow(ChannelRows(sc)[r]) /\ CellCount(ChannelRows(sc)[r], w) < 1)
                    => LeadsFor(ChannelRows(sc)[r].name, w) = <<>>

\* the leads of the table whose date parses and lies in the selected year,
\* month and day range, both ends included (positions in the table)
Filtered ==
    {k \in 1..Len(leads) :
        LET d == parseDate(leads[k].date.v)
        IN  /\ d.ok
            /\ d.y = PartNumber(selectedMonth, 1) /\ d.m = PartNumber(selectedMonth, 2)
            /\ PartNumber(selectedWeek, 1) <= d.d /\ d.d <= PartNumber(selectedWeek, 2)}

SourceOf(lead) == IF lead.leadSource = Str("") THEN "Unknown" ELSE lead.leadSource.v

\* C14: the weekly view counts exactly the leads of the selected window, each
\* in the one group of its source (an empty source under "Unknown"); the
\* totals are the sums over the groups, totals.leads is the number of leads of
\* the window and totals.booked, sold and cancelled are the numbers of those
\* leads whose flag is "Yes".
C14_WeeklyGroupsAndTotals ==
    LET w == weekly(leads, selectedMonth, selectedWeek)
        rows == w.rows
        t == w.totals
        With(flag(_)) == Cardinality({k \in Filtered : flag(leads[k]) = Str("Yes")})
    IN  ~w.threw =>
            /\ \A i, j \in 1..Len(rows) : rows[i].source = rows[j].source => i = j
            /\ \A k \in Filtered :
                   Cardinality({i \in 1..Len(rows) : rows[i].source = SourceOf(leads[k])}) = 1
            /\ \A i \in 1..Len(rows) :
                   rows[i].leads =
                       Cardinality({k \in Filtered : SourceOf(leads[k]) = rows[i].source})
            /\ t.leads = Cardinality(Filtered)
            /\ t.booked = With(LAMBDA l : l.booked)
            /\ t.sold = With(LAMBDA l : l.sold)
            /\ t.cancelled = With(LAMBDA l : l.cancelled)
            /\ t.spend = Sum([i \in 1..Len(rows) |-> rows[i].spend])
            /\ t.leads = Sum([i \in 1..Len(rows) |-> rows[i].leads])
            /\ t.booked = Sum([i \in 1..Len(rows) |-> rows[i].booked])
            /\ t.sold = Sum([i \in 1..Len(rows) |-> rows[i].sold])
            /\ t.cancelled = Sum([i \in 1..Len(rows) |-> rows[i].cancelled])
            /\ t.soldAmount = Sum([i \in 1..Len(rows) |-> rows[i].soldAmount])
            /\ t.revenue = Sum([i \in 1..Len(rows) |-> rows[i].revenue])

\* the window holds a lead without a source, and the table holds a lead
\* whose date does not parse
C14_Witness ==
    LET w == weekly(leads, selectedMonth, selectedWeek)
    IN  /\ ~w.threw
        /\ \E i \in 1..Len(w.rows) : w.rows[i].source = "Unknown" /\ w.rows[i].leads = 1
        /\ \E k \in 1..Len(leads) : ~parseDate(leads[k].date.v).ok

\* C15: the rows of the weekly view are in descending order of spend; with
\* source A (spend 100, one lead booked) and source B (spend 50, none booked)
\* in the window the rows are A, B and costPerBooked is 150.
C15_RowsBySpendDescending ==
    LET w == weekly(leads, selectedMonth, selectedWeek)
        rows == w.rows
        example == {<<leads[k].leadSource.v, leads[k].leadCost.v, leads[k].booked.v>> :
                       k \in Filtered}
    IN  ~w.threw =>
            /\ \A i \in 1..(Len(rows) - 1) : rows[i].spend >= rows[i + 1].spend
            /\ (Cardinality(Filtered) = 2
                    /\ example = {<<"A", "$100", "Yes">>, <<"B", "$50", "No">>})
                   => /\ [i \in 1..Len(rows) |-> rows[i].source] = <<"A", "B">>
                      /\ RatioIs(weeklyRatios(w.totals).costPerBooked, 150 * Hundred, 1)

\* the table lists the lead of source B before the lead of source A, and
\* the weekly view lists source A first
C15_Witness ==
    LET w == weekly(leads, selectedMonth, selectedWeek)
    IN  /\ ~w.threw
        /\ Len(leads) = 2 /\ leads[1].leadSource = Str("B") /\ leads[2].leadSource = Str("A")
        /\ [i \in 1..Len(w.rows) |-> w.rows[i].source] = <<"A", "B">>

\* the leads of the table whose jobWon is "Yes" (positions in the table)
Won == {k \in 1..Len(leads) : leads[k].jobWon = Str("Yes")}

\* C16: winRate is 0 for an empty table and otherwise the number of leads
\* with jobWon = "Yes" over the number of leads, times 100; it lies between 0
\* and 100.
C16_WinRate ==
    LET s == stats(leads)
    IN  ~s.threw =>
            /\ Len(leads) = 0 => IsZero(s.winRate)
            /\ Len(leads) > 0 => RatioIs(s.winRate, Cardinality(Won) * 100, Len(leads))
            /\ s.winRate.d > 0 /\ 0 <= s.winRate.n /\ s.winRate.n <= 100 * s.winRate.d

\* the table holds a won lead and a lead that is not won
C16_Witness ==
    /\ ~stats(leads).threw
    /\ Won # {} /\ Cardinality(Won) < Len(leads)

\* the matrix the reader makes of the file of the import in flight
Matrix == csvToMatrix(imp.file.text)

\* no cell of the matrix starts or ends with whitespace
CellsTrimmed ==
    \A r \in 1..Len(Matrix) : \A c \in 1..Len(Matrix[r]) :
        LET cell == Matrix[r][c]
        IN  cell # "" => ~IsSpace(Char(cell, 1)) /\ ~IsSpace(Char(cell, Len(cell)))

\* C17, as the specification states it: the matrix is rectangular, all rows
\* having the same number of cells, and its cells are trimmed.
C17_MatrixRectangularTrimmed ==
    imp.pc # "idle" =>
        /\ \A r, q \in 1..Len(Matrix) : Len(Matrix[r]) = Len(Matrix[q])
        /\ CellsTrimmed

\* C17, amended: the matrix has one row for each line that is not blank, a
\* row has at most one cell for each field of its line, exactly one in a
\* comma-delimited file (so lines of different numbers of fields give rows of
\* different lengths), and its cells are trimmed.
C17_MatrixRowsPerLineTrimmed ==
    imp.pc = "scorecard" => \A sc \in ScorecardInputs :
        Transformed(sc) =>
            LET blank == /\ sc.name = ""
                         /\ \/ sc.cells = <<>>
                            \/ sc.sep = "\t" /\ \A k \in 1..Len(sc.cells) : sc.cells[k] = ""
                first == IF blank THEN 2 ELSE 3
            IN  /\ CellsTrimmed
                /\ Len(Matrix) = 4 + (IF blank THEN 0 ELSE 1) + (IF sc.second THEN 1 ELSE 0)
                /\ Len(Matrix[1]) = 3 /\ Len(Matrix[2]) = 1
                /\ ~blank => /\ Len(Matrix[3]) <= 1 + Len(sc.cells)
                              /\ sc.sep = "," => Len(Matrix[3]) = 1 + Len(sc.cells)
                /\ sc.second => Matrix[first + 1] = <<"Ads", "1">>
                /\ Len(Matrix[Len(Matrix)]) = 3

\* the reader has read a comma-delimited export whose channel row has a
\* padded cell and fewer cells than the header
C17_Witness ==
    /\ imp.pc = "scorecard"
    /\ \E sc \in ScorecardInputs :
           /\ Transformed(sc)
           /\ sc.sep = "," /\ sc.name = "Yelp" /\ sc.cells = <<" 1 ">>
           /\ Matrix[3] = <<"Yelp", "1">>

(***************************************************************************)
(* deleteAllLeads                                                          *)
(***************************************************************************)
\* the documents deleted by the batches committed so far, with repetition
RECURSIVE CommittedCount(_)
CommittedCount(commits) ==
    IF commits = <<>> THEN 0
    ELSE Cardinality(Head(commits)) + CommittedCount(Tail(commits))

\* ceil(n / BatchLimit)
BatchesFor(n) == (n + BatchLimit - 1) \div BatchLimit

\* the call returned normally
DeleteCompleted == del.pc = "done"

\* no document was created after the snapshot was read
NoConcurrentCreate == Len(store) = del.issued

\* what a step of deleteAllLeads leaves: every batch committed so far holds
\* at most 400 deletes, and no document is in two batches; when the call
\* has completed, the batches hold
\* exactly the documents of the snapshot it read, there were ceil(n/400)
\* commits for the n documents of the snapshot, the count it reports is n
\* ("No leads to delete." when n is 0), and, if no document was created
\* after the read, no document is left in the collection
DeleteOutcome ==
    /\ \A k \in 1..Len(del.commits) : Cardinality(del.commits[k]) <= BatchLimit
    /\ \A j, k \in 1..Len(del.commits) :
          j # k => del.commits[j] \cap del.commits[k] = {}
    /\ DeleteCompleted =>
          LET n == Len(del.docs)
          IN  /\ UNION SeqToSet(del.commits) = SeqToSet(del.docs)
              /\ CommittedCount(del.commits) = n
              /\ Len(del.commits) = BatchesFor(n)
              /\ del.deleted = n
              /\ message = IF n = 0 THEN "No leads to delete."
                           ELSE "Deleted " \o NatToString(n) \o " leads."
              /\ NoConcurrentCreate => LiveIds(store) = {}

\* C18: every step of deleteAllLeads leaves DeleteOutcome: batches of at most
\* 400 deletes, each document of the snapshot deleted exactly once, in
\* ceil(n/400) commits, the reported count n, and an empty collection when
\* no document was created since the snapshot was read
C18_DeleteAllBatches == [][del' # del => DeleteOutcome']_vars

\* a snapshot of 801 documents deleted in three batches, none created
\* meanwhile
C18_Witness ==
    /\ DeleteCompleted
    /\ Len(del.docs) = 2 * BatchLimit + 1
    /\ Len(del.commits) = 3
    /\ NoConcurrentCreate
    /\ message = "Deleted 801 leads."

(***************************************************************************)
(* handleFileImport: failures                                              *)
(***************************************************************************)
\* a JSON file JSON.parse rejects, a spreadsheet XLSX.read rejects
Unparseable(file) ==
    /\ ~file.ok
    /\ isJson(toLowerCase(file.name)) \/ isSheet(toLowerCase(file.name))

\* C19: the import of a file that cannot be parsed ends in the step that
\* reads it, with the status "Import failed" and the collection as it was
C19_FormatErrorWritesNothing ==
    [][\A file \in Files :
          Unparseable(file) /\ handleFileImport(file)
              => /\ importStatus' = Status("failed", 0)
                 /\ imp' = Idle
                 /\ store' = store]_vars

\* "Import failed" shown, no import in flight, nothing written by an import
C19_Witness ==
    /\ importStatus = Status("failed", 0)
    /\ imp = Idle
    /\ \A id \in 1..Len(store) : store[id].origin \notin {"import", "scorecard"}

\* the documents the row loop has written when it has passed the first n rows
RECURSIVE AcceptedDocs(_, _)
AcceptedDocs(rows, n) ==
    IF n = 0 THEN <<>>
    ELSE AcceptedDocs(rows, n - 1)
             \o (IF rejected(mappedRow[rows[n]].lead) THEN <<>>
                 ELSE <<importedDoc(mappedRow[rows[n]].lead)>>)

\* the documents an import in flight has written are those of the rows it
\* has passed, in the order of the file
WrittenInFileOrder ==
    /\ imp.pc = "rows" =>
          imp.created = AcceptedDocs(imp.rows, imp.idx - 1)
    /\ imp.pc = "scorecard" =>
          imp.created = [k \in 1..(imp.idx - 1) |-> importedDoc(imp.scorecardLeads[k])]

\* the row of the import in flight cannot be mapped
MappingFails ==
    /\ imp.pc = "rows" /\ imp.idx <= Len(imp.rows)
    /\ mappedRow[imp.rows[imp.idx]].threw
    /\ ImportRow

\* a step of the import in flight writes nothing, or writes the document of
\* its current row as the newest of the collection and moves to the next row
OneRowPerStep ==
    (imp.pc \in {"rows", "scorecard"} /\ imp' # imp) =>
        \/ store' = store
        \/ /\ Len(store') = Len(store) + 1
           /\ SubSeq(store', 1, Len(store)) = store
           /\ imp'.pc = imp.pc /\ imp'.idx = imp.idx + 1
           /\ store'[Len(store')].data =
                  IF imp.pc = "rows" THEN importedDoc(mappedRow[imp.rows[imp.idx]].lead)
                  ELSE importedDoc(imp.scorecardLeads[imp.idx])

\* C20: a write or a mapping that fails ends the import with the collection
\* as the rows before it left it (nothing is rolled back, no later row is
\* written), and the import writes its rows one per step in file order
C20_PartialImportKept ==
    /\ []WrittenInFileOrder
    /\ [][/\ (ImportWriteFails \/ MappingFails) =>
               /\ store' = store
               /\ imp' = Idle
               /\ importStatus' = Status("failed", 0)
          /\ OneRowPerStep]_vars

\* the import of leads.json failed at its third row, which cannot be
\* mapped; the document of its first row is in the collection
C20_Witness ==
    /\ importStatus = Status("failed", 0)
    /\ imp = Idle
    /\ Len(store) = 1
    /\ store[1].exists /\ store[1].origin = "import"
    /\ store[1].data.customer = Str("Di")

(***************************************************************************)
(* handleFileImport: the store operations of an import                     *)
(***************************************************************************)
\* a step of handleFileImport
ImportStep == imp' # imp \/ importStatus' # importStatus

\* the step passes a row it has accepted: one that is mapped, has a date and
\* a customer, and whose write is not rejected; or a lead of the scorecard
RowAccepted ==
    /\ imp.pc \in {"rows", "scorecard"}
    /\ imp'.pc = imp.pc /\ imp'.idx = imp.idx + 1
    /\ imp.pc = "rows" => ~rejected(mappedRow[imp.rows[imp.idx]].lead)

\* C21: a step of an import leaves every document of the collection as it
\* was and creates at most one; every row it accepts is created as a new
\* document, whether or not the collection holds an equal one
C21_ImportOnlyAppends ==
    [][ImportStep =>
          /\ Len(store') >= Len(store)
          /\ SubSeq(store', 1, Len(store)) = store
          /\ \A id \in (Len(store) + 1)..Len(store') : store'[id].exists
          /\ Len(store') = IF RowAccepted THEN Len(store) + 1 ELSE Len(store)]_vars

\* book.xlsx imported twice: its row is in the collection twice
C21_Witness ==
    /\ imp = Idle /\ importStatus = Status("imported", 1)
    /\ Len(store) = 2
    /\ store[1].exists /\ store[2].exists
    /\ store[1].origin = "import" /\ store[2].origin = "import"
    /\ store[1].data = store[2].data
    /\ store[1].data.customer = Str("Flo")

(***************************************************************************)
(* parseMoney                                                              *)
(***************************************************************************)
\* the characters parseMoney keeps
IsMoneyChar(c) == IsDigit(c) \/ c \in {".", "-"}

\* s without its character at position i
Without(s, i) == SubSeq(s, 1, i - 1) \o SubSeq(s, i + 1, Len(s))

\* parseMoney of the texts the README and the specification name, in
\* hundredths
MoneyExamples ==
    ("$15" :> 15 * Hundred) @@ ("15" :> 15 * Hundred) @@ ("$0" :> 0) @@ ("abc" :> 0)
        @@ ("$1,250.50" :> 1250 * Hundred + 50) @@ ("-5" :> 0 - 5 * Hundred)
        @@ ("1-5" :> 0) @@ ("-" :> 0) @@ ("." :> 0) @@ ("" :> 0)

\* what C22 says of the lead cost text s
MoneyParsed(s) ==
    /\ parseMoney(Str(s)) \in Int
    /\ \A i \in 1..Len(s) :
          ~IsMoneyChar(Char(s, i)) => parseMoney(Str(s)) = parseMoney(Str(Without(s, i)))
    /\ (\A i \in 1..Len(s) : IsMoneyChar(Char(s, i))) =>
          parseMoney(Str(s)) = IF StringToNumber(s).nan THEN 0 ELSE StringToNumber(s).c
    /\ s \in DOMAIN MoneyExamples => parseMoney(Str(s)) = MoneyExamples[s]

\* C22: parseMoney of every lead cost is a finite number: a character that
\* is no digit, dot or minus sign does not change it, a text of digits, dots
\* and minus signs gives its decimal value, or 0 when it is no number, and
\* "$15", "$0" and "abc" give 15, 0 and 0; the total cost of the dashboard
\* is that number
C22_ParseMoneyFinite ==
    /\ \A id \in LiveIds(store) : MoneyParsed(store[id].data.leadCost.v)
    /\ \A k \in 1..Len(leads) : MoneyParsed(leads[k].leadCost.v)
    /\ Len(leads) = 1 =>
          /\ ~stats(leads).threw
          /\ stats(leads).totalCost = parseMoney(leads[1].leadCost)

\* the dashboard over a lead whose cost is negative
C22_Witness ==
    /\ Len(leads) = 1
    /\ leads[1].leadCost = Str("-.5")
    /\ stats(leads).totalCost = 0 - 50

(***************************************************************************)
(* normalizeImportedLead: aliases and defaults                             *)
(***************************************************************************)
\* the value of the first of keys that row has with a value other than '',
\* Undef when there is none
FirstAlias(row, keys) ==
    LET hits == {i \in 1..Len(keys) :
                    Lookup(row, keys[i]) # Undef /\ Lookup(row, keys[i]) # Str("")}
    IN  IF hits = {} THEN Undef
        ELSE Lookup(row, keys[CHOOSE i \in hits : \A j \in hits : i <= j])

\* the first alias with a value, else the default
AliasOr(row, keys, default) ==
    IF FirstAlias(row, keys) = Undef THEN Str(default) ELSE FirstAlias(row, keys)

\* Yes when the first alias with a value says yes, else No
AliasYesNo(row, keys) ==
    IF FirstAlias(row, keys) # Undef /\ IsStr(FirstAlias(row, keys))
       /\ toLowerCase(FirstAlias(row, keys).v) = "yes"
    THEN Str("Yes") ELSE Str("No")

\* the Row Mapper maps row, and each field is the first alias with a value
\* or the default of the field
AliasPriority(row) ==
    /\ ~mappedRow[row].threw
    /\ \E lead \in {mappedRow[row].lead} :
          /\ lead.date = AliasOr(row, <<"date">>, "")
          /\ lead.customer = AliasOr(row, <<"customer", "name">>, "")
          /\ lead.leadSource = AliasOr(row, <<"lead source", "source">>, "")
          /\ lead.jobType = AliasOr(row, <<"job type">>, "")
          /\ lead.comments = AliasOr(row, <<"comments">>, "")
          /\ lead.replyTimeMinutes = AliasOr(row, <<"reply time minutes">>, "")
          /\ lead.leadCost = AliasOr(row, <<"lead cost", "cost">>, "$0")
          /\ lead.soldAmount = AliasOr(row, <<"sold amount">>, "$0")
          /\ lead.revenue = AliasOr(row, <<"revenue">>, "$0")
          /\ lead.jobWon = AliasYesNo(row, <<"job won", "sold">>)
          /\ lead.booked = AliasYesNo(row, <<"booked">>)
          /\ lead.sold = AliasYesNo(row, <<"sold", "job won">>)
          /\ lead.cancelled = AliasYesNo(row, <<"cancelled", "canceled">>)

\* C23: every row of an import is mapped with each field taken from the
\* first of its aliases that has a non-empty value, and from the default of
\* the field ('', "$0" for the currency fields, "No" for the booleans) when
\* none has
C23_AliasPriority ==
    imp.pc = "rows" => \A r \in 1..Len(imp.rows) : AliasPriority(imp.rows[r])

(***************************************************************************)
(* csvToMatrix.parseLine                                                   *)
(***************************************************************************)
\* the second line of the file of the import in flight, as parseLine gets it
DataLine == trimEnd(SplitLines(imp.file.text)[2])

\* the file is read in tab mode
TabMode == includes(trimEnd(SplitLines(imp.file.text)[1]), "\t")

\* the number of double quotes of line before position i
QuotesBefore(line, i) == Cardinality({j \in 1..(i - 1) : Char(line, j) = "\""})

\* the positions where line is cut: in tab mode every tab, in comma mode the
\* commas that have an even number of double quotes before them
Cuts(line) ==
    IF TabMode THEN {i \in 1..Len(line) : Char(line, i) = "\t"}
    ELSE {i \in 1..Len(line) : Char(line, i) = "," /\ QuotesBefore(line, i) % 2 = 0}

\* the k-th piece of line between two cuts
Piece(line, k) ==
    LET marks == {0} \cup Cuts(line) \cup {Len(line) + 1}
        mark(n) == CHOOSE c \in marks : Cardinality({d \in marks : d < c}) = n
    IN  SubSeq(line, mark(k - 1) + 1, mark(k) - 1)

\* s without its double quotes
RECURSIVE Unquoted(_)
Unquoted(s) ==
    IF s = "" THEN ""
    ELSE (IF Char(s, 1) = "\"" THEN "" ELSE Char(s, 1)) \o Unquoted(SubSeq(s, 2, Len(s)))

\* the text of a piece that is one quoted section: a double quote, then
\* characters other than the double quote and doubled double quotes, then a
\* double quote; Undef for any other piece
RECURSIVE QuotedText(_, _)
QuotedText(p, i) ==
    IF i = Len(p) THEN (IF Char(p, i) = "\"" THEN Str("") ELSE Undef)
    ELSE IF i > Len(p) THEN Undef
    ELSE IF Char(p, i) # "\""
         THEN (IF QuotedText(p, i + 1) = Undef THEN Undef
               ELSE Str(Char(p, i) \o QuotedText(p, i + 1).v))
    ELSE IF Char(p, i + 1) = "\"" /\ i + 1 < Len(p)
         THEN (IF QuotedText(p, i + 2) = Undef THEN Undef
               ELSE Str("\"" \o QuotedText(p, i + 2).v))
    ELSE Undef

\* the cells of a line follow its pieces
CellsOfPieces(line, cells) ==
    /\ Len(cells) = 1 + Cardinality(Cuts(line))
    /\ \A k \in 1..Len(cells) :
          \E piece \in {Piece(line, k)} :
              IF TabMode THEN cells[k] = trim(piece)
              ELSE /\ trim(Unquoted(cells[k])) = trim(Unquoted(piece))
                   /\ (Len(piece) >= 2 /\ Char(piece, 1) = "\""
                          /\ QuotedText(piece, 2) # Undef)
                        => cells[k] = trim(QuotedText(piece, 2).v)

\* C24: the cells of a line are its pieces between the delimiters: in comma
\* mode a comma inside a quoted section does not cut, a cell has the
\* characters of its piece without the enclosing quotes, and a doubled quote
\* inside a quoted section is one quote of the cell; in tab mode every tab
\* cuts and the quotes stay in the cell
C24_FieldSplitting ==
    (imp.pc # "idle" /\ imp.file \in QuoteFiles /\ DataLine # "") =>
        /\ Len(Matrix) = 2
        /\ CellsOfPieces(DataLine, Matrix[2])

\* a line with a comma inside a quoted section, and a line with a doubled
\* quote inside a quoted section
C24_Witness ==
    /\ imp.pc # "idle" /\ imp.file \in QuoteFiles /\ ~TabMode
    /\ \/ DataLine = "\",\",a" /\ Matrix[2] = <<",", "a">>
       \/ DataLine = "\"\"\"\"" /\ Matrix[2] = <<"\"">>

(***************************************************************************)
(* handleFileImport: the gate of the scorecard fallback                    *)
(***************************************************************************)
\* C25: the import enters the scorecard loop only from the end of a row loop
\* that has written nothing; while it is in the scorecard loop every record
\* it has written is one of the transformer's leads and the file is neither
\* a .json nor a .xlsx or .xls file; while it is in the row loop the
\* transformer has not run
C25_ScorecardOnlyAfterZeroRows ==
    /\ [](imp.pc = "scorecard" =>
            /\ ~isJson(toLowerCase(imp.file.name)) /\ ~isSheet(toLowerCase(imp.file.name))
            /\ imp.importedCount = imp.idx - 1
            /\ imp.created = [k \in 1..(imp.idx - 1) |-> importedDoc(imp.scorecardLeads[k])])
    /\ [](imp.pc = "rows" => imp.scorecardLeads = <<>>)
    /\ [][(imp'.pc = "scorecard" /\ imp.pc # "scorecard") =>
              /\ imp.pc = "rows" /\ imp.idx > Len(imp.rows)
              /\ imp.importedCount = 0 /\ imp.created = <<>>
              /\ imp'.created = <<>>]_vars

\* the transformer's leads being written after a row loop that accepted no
\* row
C25_Witness ==
    /\ imp.pc = "scorecard" /\ imp.idx = 2
    /\ Len(imp.rows) > 0
    /\ imp.importedCount = 1
    /\ \E id \in LiveIds(store) : store[id].origin = "scorecard"

(***************************************************************************)
(* parseScorecardToLeads: the channel section                              *)
(***************************************************************************)
\* the first cell of row r of the matrix m, in lower case
FirstCell(m, r) == toLowerCase(m[r][1])

\* the section-start rows and the section-end rows of the matrix
StartRows(m) == {r \in 1..Len(m) : includes(FirstCell(m, r), "channel performance")}
EndRows(m, start) ==
    {r \in (start + 1)..Len(m) : includes(FirstCell(m, r), "brand & reputation")}

\* some cell of the matrix is a week label
HasHeaderRow(m) == \E r \in 1..Len(m) : \E c \in 1..Len(m[r]) : WeekTest(m[r][c])

\* the rows strictly between the section start and the section end, the 7
\* rows after the start when there is no end
Between(m, start, ends) ==
    IF ends = {}
    THEN {r \in 1..Len(m) : start < r /\ r <= start + 7}
    ELSE {r \in 1..Len(m) : start < r /\ \A e \in ends : r < e}

\* a row that names a channel and has a count in the week column
ChannelRow(m, r) ==
    /\ m[r][1] # ""
    /\ ~includes(FirstCell(m, r), "goal") /\ ~includes(FirstCell(m, r), "actual")
    /\ Len(m[r]) >= 2 /\ HasDigit(m[r][2])

\* what C26 says of the leads the transformer returns for the matrix m
SectionLeads(m, leadsFound) ==
    \E starts \in {StartRows(m)} :
        IF ~HasHeaderRow(m) \/ starts = {} THEN leadsFound = <<>>
        ELSE \E start \in {r \in starts : \A q \in starts : r <= q} :
             \E ends \in {EndRows(m, start)} :
                 {leadsFound[k].leadSource : k \in 1..Len(leadsFound)}
                     = {Str(m[r][1]) : r \in {q \in Between(m, start, ends) : ChannelRow(m, q)}}

Headers == {imp.rows[1][k][1] : k \in 1..Len(imp.rows[1])}

\* C27: normalizing a normalized column label changes nothing, and a
\* normalized label neither starts nor ends with a space
C27_NormalizeHeaderIdempotent ==
    (imp.pc = "rows" /\ ~isJson(toLowerCase(imp.file.name))) =>
        \A h \in Headers :
            /\ normalizeHeader(h) = h
            /\ h # "" => Char(h, 1) # " " /\ Char(h, Len(h)) # " "

(***************************************************************************)
(* The week-reset effect                                                   *)
(***************************************************************************)
\* the selected week is one of the ranges of the selected month
WeekOfMonth == selectedWeek \in SeqToSet(weeksOfMonth[selectedMonth])

\* C28: the week-reset effect sets the selected week to "1-7", which is a
\* range of the selected month, and a selected week that is no range of the
\* selected month does not stay: the effect runs, unless a selection makes
\* the week a range of the month first
C28_WeekResetToFirstRange ==
    /\ [][weekResetEffect =>
              /\ ~WeekOfMonth
              /\ selectedWeek' = "1-7"
              /\ WeekOfMonth']_vars
    /\ (~WeekOfMonth ~> WeekOfMonth)

\* "29-31" is selected and the month has been changed to one of 30 days
C28_Witness ==
    /\ selectedWeek = "29-31"
    /\ selectedMonth = "2026-04"
    /\ weeksOfMonth[selectedMonth][5] = "29-30"

(***************************************************************************)
(* The leads state across accounts                                         *)
(***************************************************************************)
\* C29: while a user is signed in, the leads state holds no Lead read from
\* the collection of another account
C29_LeadsOfSignedInUser ==
    auth.user # NoUser => (leads = <<>> \/ auth.shown = auth.user)

(***************************************************************************)
(* The dates of the scorecard transformer                                  *)
(***************************************************************************)
\* text is YYYY-MM-DD, a day of the calendar of the current year
DayOfCurrentYear(text) == parseDate(text).ok /\ parseDate(text).y = currentYear

\* the ranges of the month of the lead's date in which the weekly view
\* counts the lead
CountingRanges(lead) ==
    LET weeks == monthWeeks(SubSeq(lead.date.v, 1, 7))
    IN  {k \in 1..Len(weeks) :
            inWindow(lead, currentYear, parseDate(lead.date.v).m,
                     PartNumber(weeks[k], 1), PartNumber(weeks[k], 2))}

\* C30: every Lead the scorecard transformer produces has a date YYYY-MM-DD
\* that is a day of the calendar of the current year, and the weekly view
\* counts it in exactly one range of its month
C30_ScorecardDatesValid ==
    imp.pc = "scorecard" =>
        \A k \in 1..Len(imp.scorecardLeads) :
            /\ DayOfCurrentYear(imp.scorecardLeads[k].date.v)
            /\ Cardinality(CountingRanges(imp.scorecardLeads[k])) = 1

====
